---- MODULE Spec2Model ----
(***************************************************************************)
(* The document-indexing job queue of Vidya-vaani: RedisLockManager and    *)
(* AtomicOperations (lib/redis-atomic), IndexingQueue and                  *)
(* WorkerPoolManager (lib/queue, lib/worker-pool).                         *)
(*                                                                         *)
(* Every await on the store is one atomic step of the calling context; the *)
(* local computation that follows it, up to the next await, belongs to the *)
(* same step.  Time is abstract: a lock entry written with {nx, ex: ttl}   *)
(* may be dropped by the store at any moment it exists (action Expire).    *)
(***************************************************************************)
EXTENDS Integers, Sequences, FiniteSets, TLC

\* ------------------------------------------------------------ bounds
\* Number of jobs the producers may enqueue in one behaviour.
MaxJobs == 2
\* Number of lock expiries in one behaviour of the concurrent specification.
MaxExpire == 4
\* Number of operations called in one behaviour of the concurrent
\* specification.
MaxCalls == 3
\* Number of calls the store fails in one behaviour.
MaxFaults == 1

\* ------------------------------------------------- program constants
MAX_JOBS_PER_WORKER == 5
MAX_ATTEMPTS == 3
maxRetries == 5

QUEUE_KEY == "indexing_queue"
PROCESSING_KEY == "indexing_processing"
FAILED_QUEUE == "indexing_failed"

\* ------------------------------------------------------ model values
\* Execution contexts: each runs one queue operation at a time.
Procs == {"w1", "w2"}
\* The processJob calls of one dequeued batch run concurrently, each in a
\* context of its own.
Tasks == {"t1", "t2", "t3"}
TaskSeq == <<"t1", "t2", "t3">>
Ctxs == Procs \cup Tasks
\* The contexts that are started as WorkerPoolManagers.
Workers == {"w1"}
LockKeys == {QUEUE_KEY, PROCESSING_KEY}
\* The keys of the three lists, in the order Array.prototype.sort() gives
\* them (by UTF-16 code unit: "f" < "p" < "q").
ListOrder == <<FAILED_QUEUE, PROCESSING_KEY, QUEUE_KEY>>
ListKeys == {ListOrder[i] : i \in 1..Len(ListOrder)}
\* `${RESULTS_KEY_PREFIX}${jobId}`, by jobId; they sort after the list keys
\* ("q" < "r").
ResultKeys == <<"indexing_result:1", "indexing_result:2", "indexing_result:3",
                "indexing_result:4">>
ResultKey(j) == ResultKeys[j]
KeyOrder == ListOrder \o ResultKeys
AllKeys == {KeyOrder[i] : i \in 1..Len(KeyOrder)}
\* One job more than the calls ever enqueue: the indexer worker starts on a
\* queue of MaxJobs + 1 jobs.
JobIds == 1..(MaxJobs + 1)
\* const result = await withLock(..., async () => { ... result ... }) in
\* complete(): a build that keeps const makes the read of `result` inside
\* the callback throw (the binding is not initialised yet); a build that
\* lowers const to var makes it read undefined.
Builds == {"es2015", "es5"}
\* Not decided yet: it shows only when complete() gets to the read.
AnyBuild == "any"
NoToken == <<>>
NoJob == [jobId |-> 0, attempts |-> 0, workerId |-> "none"]
\* val: what else the operation returned, as a tuple.
NoRet == [op |-> "none", ok |-> FALSE, jobs |-> <<>>, job |-> 0, val |-> <<>>]
\* keys: the sortedKeys of withMultipleKeys; seen: what the operation under
\* it has read so far.
NoArg == [job |-> 0, retry |-> FALSE, key |-> "none", keys |-> <<>>,
          seen |-> <<>>]
NoPre == [list |-> <<>>, free |-> FALSE, arg |-> NoArg]
NoResult == [status |-> "none", data |-> "none"]

VARIABLES
    lock,        \* lock:<key> entries: the token stored, or NoToken
    pending,     \* list indexing_queue, head first
    processing,  \* list indexing_processing, head first
    failed,      \* list indexing_failed, head first
    result,      \* indexing_result:<jobId> records
    doc,         \* what document:<docId> holds, one document per job
    nextJob,     \* the next fresh job id
    op,          \* the operation each context is executing
    pc,          \* its position in that operation
    arg,         \* the operation's arguments
    att,         \* acquireLock's local `attempts`
    idx,         \* dequeue's loop counter i
    jobs,        \* dequeue's local `jobs`
    found,       \* the job the withList callback read (job / foundJob)
    todo,        \* store calls of a Promise.all not yet executed
    ret,         \* what the context's last operation returned
    pre,         \* what the operation saw when it was called
    requeues,    \* per job: pushes back onto the pending list by fail
    expiries,    \* lock entries the store has dropped so far
    expired,     \* the keys whose lock entry the store has dropped
    build,       \* the compilation target the code was built for
    watch,       \* whether pre, ret, requeues and written are recorded
    calls,       \* operations called so far
    wpc,         \* WorkerPoolManager.processJobs: where each worker's loop is
    tjob,        \* the job each processJob call was handed
    tpc,         \* where each processJob call is
    isRunning,   \* WorkerPoolManager.isRunning, per worker
    text,        \* createChunks' parameter `text`
    chunkSize,   \* createChunks' parameter `chunkSize`
    chunks,      \* what createChunks returned
    nchunks,     \* processDocument: chunks.length for the job's document
    progress,    \* the ProgressUpdate stored under progress:<jobId>
    batches,     \* the BatchProgress records, by processDocument call and batch
    dpc,         \* where each processDocument call is
    di,          \* processDocument's batchIndex
    derr,        \* whether the batch threw (completeBatch's `error`)
    dnew,        \* incrementProcessedChunks' processedChunks and progress
    faults,      \* calls of the progress tracker the store has failed
    ptext,       \* WorkerPoolManager.createChunks: text.length
    start,       \* WorkerPoolManager.createChunks: start
    pchunks,     \* WorkerPoolManager.createChunks: chunks.length
    ploop,       \* WorkerPoolManager.createChunks: in its loop, or returned
    written,     \* chunk:<docId>_chunk_<id>: the chunks stored under it
    value,       \* the number stored at each key getAndSet is called on
    updates,     \* getAndSet calls on each key that returned a value
    activeJobs   \* worker/indexer.ts: activeJobs

\* The state of src/worker/indexer.ts.
tracker == <<nchunks, progress, batches, di, derr, dnew, faults>>
splitter == <<ptext, start, pchunks, ploop>>
\* What neither the queue nor src/worker/indexer.ts touches.
counter == <<value, updates>>
aside == <<splitter, written, counter, activeJobs>>
indexer == <<text, chunkSize, chunks, tracker, aside>>
store == <<lock, pending, processing, failed, result, doc, nextJob>>
local == <<op, pc, arg, att, idx, jobs, found, todo, ret, pre>>
\* What no queue operation changes.
pool == <<wpc, tjob, tpc, isRunning, dpc>>
env == <<expiries, expired, build, watch, indexer, calls, wpc, tjob, tpc,
         isRunning, dpc>>
vars == <<lock, pending, processing, failed, result, doc, nextJob,
          op, pc, arg, att, idx, jobs, found, todo, ret, pre, requeues,
          expiries, expired, build, watch, indexer, calls, wpc, tjob, tpc,
          isRunning, dpc>>

\* --------------------------------------------------- store primitives
Min(a, b) == IF a < b THEN a ELSE b

LPush(list, e) == <<e>> \o list

\* A push that puts the entry at the head.
RPushHead(list, e) == <<e>> \o list

RPush(list, e) == Append(list, e)

RPop(list) == IF list = <<>> THEN list ELSE SubSeq(list, 1, Len(list) - 1)

\* LREM key 1 e: removes the first element equal to e, if any.
LRem(list, e) ==
    IF \E i \in 1..Len(list) : list[i] = e
    THEN LET i == CHOOSE i \in 1..Len(list) :
                      /\ list[i] = e
                      /\ \A k \in 1..(i - 1) : list[k] # e
         IN SubSeq(list, 1, i - 1) \o SubSeq(list, i + 1, Len(list))
    ELSE list

\* A scan that takes the first entry, whatever its jobId.
FindJobAny(list, j) == IF list = <<>> THEN NoJob ELSE Head(list)

\* The scan of complete/fail: the first entry whose jobId is j, or NoJob.
FindJob(list, j) ==
    IF \E i \in 1..Len(list) : list[i].jobId = j
    THEN list[CHOOSE i \in 1..Len(list) :
                  /\ list[i].jobId = j
                  /\ \A k \in 1..(i - 1) : list[k].jobId # j]
    ELSE NoJob

Ids(list) == {list[i].jobId : i \in 1..Len(list)}

\* ------------------------------------------------------ lock manager
\* acquireLock draws a random token per call; two live calls never share
\* one, so a token is named by the context and the withLock frame it is for.
Token(c, frame) == <<c, frame>>

\* acquireLock with a plain SET in place of SET NX.
AcquireStepNoNX(c, k, frame, ok, no) ==
    /\ lock' = [lock EXCEPT ![k] = Token(c, frame)]
    /\ att' = [att EXCEPT ![c] = 0]
    /\ pc' = [pc EXCEPT ![c] = ok]

\* acquireLock with `attempts <= maxRetries` as its loop condition.
AcquireStepOneMore(c, k, frame, ok, no) ==
    IF lock[k] = NoToken
    THEN /\ lock' = [lock EXCEPT ![k] = Token(c, frame)]
         /\ att' = [att EXCEPT ![c] = 0]
         /\ pc' = [pc EXCEPT ![c] = ok]
    ELSE /\ lock' = lock
         /\ IF att[c] + 1 < maxRetries + 1
            THEN /\ att' = [att EXCEPT ![c] = att[c] + 1]
                 /\ pc' = pc
            ELSE /\ att' = [att EXCEPT ![c] = 0]
                 /\ pc' = [pc EXCEPT ![c] = no]

\* acquireLock that retries until the key is free.
AcquireStepForever(c, k, frame, ok, no) ==
    IF lock[k] = NoToken
    THEN /\ lock' = [lock EXCEPT ![k] = Token(c, frame)]
         /\ att' = [att EXCEPT ![c] = 0]
         /\ pc' = [pc EXCEPT ![c] = ok]
    ELSE /\ lock' = lock
         /\ att' = [att EXCEPT ![c] = Min(att[c] + 1, maxRetries)]
         /\ pc' = pc

\* acquireLock on one entry for all keys (a lock key that leaves the key out).
AcquireStepGlobal(c, k, frame, ok, no) ==
    IF \A k2 \in DOMAIN lock : lock[k2] = NoToken
    THEN /\ lock' = [lock EXCEPT ![k] = Token(c, frame)]
         /\ att' = [att EXCEPT ![c] = 0]
         /\ pc' = [pc EXCEPT ![c] = ok]
    ELSE /\ lock' = lock
         /\ IF att[c] + 1 < maxRetries
            THEN /\ att' = [att EXCEPT ![c] = att[c] + 1]
                 /\ pc' = pc
            ELSE /\ att' = [att EXCEPT ![c] = 0]
                 /\ pc' = [pc EXCEPT ![c] = no]

\* One iteration of acquireLock's loop: SET lock:<k> token NX EX ttl, then
\* either return the token (goto ok) or sleep, count, and after maxRetries
\* failed attempts return null (goto no).
AcquireStep(c, k, frame, ok, no) ==
    IF lock[k] = NoToken
    THEN /\ lock' = [lock EXCEPT ![k] = Token(c, frame)]
         /\ att' = [att EXCEPT ![c] = 0]
         /\ pc' = [pc EXCEPT ![c] = ok]
    ELSE /\ lock' = lock
         /\ IF att[c] + 1 < maxRetries
            THEN /\ att' = [att EXCEPT ![c] = att[c] + 1]
                 /\ pc' = pc
            ELSE /\ att' = [att EXCEPT ![c] = 0]
                 /\ pc' = [pc EXCEPT ![c] = no]

\* releaseLock that returns after the GET, whatever it read.
ReleaseGetOnly(c, k, frame, del, after) ==
    /\ pc' = [pc EXCEPT ![c] = after]
    /\ lock' = lock

\* releaseLock, first await: GET lock:<k>; on a mismatch return false (goto
\* after), else go on to the DEL (goto del).
ReleaseGet(c, k, frame, del, after) ==
    /\ pc' = [pc EXCEPT ![c] = IF lock[k] = Token(c, frame) THEN del ELSE after]
    /\ lock' = lock

\* releaseLock, second await: DEL lock:<k>, whatever it holds by now.
ReleaseDel(c, k, after) ==
    /\ lock' = [lock EXCEPT ![k] = NoToken]
    /\ pc' = [pc EXCEPT ![c] = after]

\* The store drops a lock entry whose ttl has run out.
Expire(k) ==
    /\ lock[k] # NoToken
    /\ lock' = [lock EXCEPT ![k] = NoToken]
    /\ expired' = IF watch THEN expired \cup {k} ELSE expired
    /\ UNCHANGED <<pending, processing, failed, result, doc, nextJob,
                   local, requeues, build, watch, indexer, calls, pool>>

\* ... any number of times,
ExpireAny(k) == Expire(k) /\ UNCHANGED expiries

\* ... or at most MaxExpire times in a behaviour.
ExpireCounted(k) ==
    /\ expiries < MaxExpire
    /\ Expire(k)
    /\ expiries' = expiries + 1

\* ----------------------------------------------- calling and returning
\* Context c calls operation `name` with argument a; the operation works on
\* list l under the lock of key k.
Call(c, name, a, first, l, k) ==
    /\ op[c] = "idle"
    /\ op' = [op EXCEPT ![c] = name]
    /\ pc' = [pc EXCEPT ![c] = first]
    /\ arg' = [arg EXCEPT ![c] = a]
    /\ ret' = [ret EXCEPT ![c] = NoRet]
    /\ pre' = [pre EXCEPT ![c] =
                  IF watch
                  THEN [list |-> l, free |-> lock[k] = NoToken, arg |-> a]
                  ELSE NoPre]
    /\ UNCHANGED <<store, att, idx, jobs, found, todo, requeues, expiries,
                   expired, build, watch, indexer>>

\* The operation returns r: its locals go out of scope.
Finish(c, r) ==
    /\ op' = [op EXCEPT ![c] = "idle"]
    /\ ret' = [ret EXCEPT ![c] = IF watch THEN r ELSE NoRet]
    /\ arg' = [arg EXCEPT ![c] = NoArg]
    /\ idx' = [idx EXCEPT ![c] = 0]
    /\ jobs' = [jobs EXCEPT ![c] = <<>>]
    /\ found' = [found EXCEPT ![c] = NoJob]
    /\ todo' = [todo EXCEPT ![c] = {}]

\* A step that has set pc': the operation returns r if it went to "idle".
FinishIfIdle(c, r) ==
    IF pc'[c] = "idle"
    THEN Finish(c, r)
    ELSE UNCHANGED <<op, ret, arg, idx, jobs, found, todo>>

\* createChunks(text) never returns for a text of length >= 1: start is set
\* to end - CHUNK_OVERLAP, which stays below text.length.
Hung == \E t \in Tasks : tpc[t] = "chunking"

\* That loop is synchronous: while a processJob is in it, no continuation of
\* the worker's process runs.
Runs(c) ==
    /\ ~(Hung /\ c \in Workers \cup Tasks)
    /\ c \in Procs => wpc[c] # "crashed"

At(c, name, label) == Runs(c) /\ op[c] = name /\ pc[c] = label

Lists == <<pending, processing, failed>>

\* ------------------------------------------------------------ enqueue
EnqueueRet(ok, j) == [NoRet EXCEPT !.op = "enqueue", !.ok = ok, !.job = j]

EnqueueCall(c) ==
    /\ nextJob <= MaxJobs
    /\ Call(c, "enqueue", NoArg, "acq", pending, QUEUE_KEY)

\* withLock(QUEUE_KEY, ...): no lock, no push: result ?? {success: false}.
EnqueueAcquire(c) ==
    /\ At(c, "enqueue", "acq")
    /\ AcquireStep(c, QUEUE_KEY, "outer", "push", "idle")
    /\ FinishIfIdle(c, EnqueueRet(FALSE, 0))
    /\ UNCHANGED <<Lists, result, doc, nextJob, pre, requeues, env>>

\* The job gets a fresh id and attempts = 0 and is LPUSHed.
EnqueuePush(c) ==
    /\ At(c, "enqueue", "push")
    /\ pending' = LPush(pending,
                        [jobId |-> nextJob, attempts |-> 0, workerId |-> "none"])
    /\ nextJob' = nextJob + 1
    /\ arg' = [arg EXCEPT ![c].job = nextJob]
    /\ pc' = [pc EXCEPT ![c] = "relget"]
    /\ UNCHANGED <<lock, processing, failed, result, doc, op, att, idx, jobs,
                   found, todo, ret, pre, requeues, env>>

EnqueueReleaseGet(c) ==
    /\ At(c, "enqueue", "relget")
    /\ ReleaseGet(c, QUEUE_KEY, "outer", "reldel", "idle")
    /\ FinishIfIdle(c, EnqueueRet(TRUE, arg[c].job))
    /\ UNCHANGED <<Lists, result, doc, nextJob, att, pre, requeues, env>>

EnqueueReleaseDel(c) ==
    /\ At(c, "enqueue", "reldel")
    /\ ReleaseDel(c, QUEUE_KEY, "idle")
    /\ Finish(c, EnqueueRet(TRUE, arg[c].job))
    /\ UNCHANGED <<Lists, result, doc, nextJob, att, pre, requeues, env>>

\* ------------------------------------------------------------ dequeue
\* A dequeue that reports an empty batch as a failure.
DequeueRetStrict(js) ==
    [NoRet EXCEPT !.op = "dequeue", !.ok = (js # <<>>), !.jobs = js]

DequeueRet(js) == [NoRet EXCEPT !.op = "dequeue", !.ok = TRUE, !.jobs = js]

DequeueCall(c) ==
    Call(c, "dequeue", NoArg, "acq", pending, QUEUE_KEY)

\* The outer withLock(QUEUE_KEY, ...): no lock, result ?? [].
DequeueAcquire(c) ==
    /\ At(c, "dequeue", "acq")
    /\ AcquireStep(c, QUEUE_KEY, "outer", "in_acq", "idle")
    /\ FinishIfIdle(c, DequeueRet(<<>>))
    /\ UNCHANGED <<Lists, result, doc, nextJob, pre, requeues, env>>

\* Where dequeue goes once its for loop is left: the withHash on
\* worker_status when jobs were taken, else the outer release.
AfterLoop(js) == IF Len(js) > 0 THEN "hash" ELSE "relget"

\* atomicOps.withList(QUEUE_KEY, ...) takes lock:indexing_queue again, under
\* a token of its own; without it withList returns null and the loop breaks.
DequeueInnerAcquire(c) ==
    /\ At(c, "dequeue", "in_acq")
    /\ AcquireStep(c, QUEUE_KEY, "inner", "lrange", AfterLoop(jobs[c]))
    /\ UNCHANGED <<Lists, result, doc, nextJob, op, arg, idx, jobs, found,
                   todo, ret, pre, requeues, env>>

\* LRANGE: an empty list gives null; else the tail is parsed, attempts is
\* incremented and workerId stamped.
DequeueLRange(c) ==
    /\ At(c, "dequeue", "lrange")
    /\ IF pending = <<>>
       THEN /\ found' = [found EXCEPT ![c] = NoJob]
            /\ pc' = [pc EXCEPT ![c] = "in_relget"]
       ELSE /\ found' = [found EXCEPT ![c] =
                    [jobId |-> pending[Len(pending)].jobId,
                     attempts |-> pending[Len(pending)].attempts + 1,
                     workerId |-> c]]
            /\ pc' = [pc EXCEPT ![c] = "rpop"]
    /\ UNCHANGED <<store, op, arg, att, idx, jobs, todo, ret, pre, requeues, env>>

\* RPOP takes whatever is at the tail by now.
DequeueRPop(c) ==
    /\ At(c, "dequeue", "rpop")
    /\ pending' = RPop(pending)
    /\ pc' = [pc EXCEPT ![c] = "lpush"]
    /\ UNCHANGED <<lock, processing, failed, result, doc, nextJob, op, arg,
                   att, idx, jobs, found, todo, ret, pre, requeues, env>>

DequeueLPush(c) ==
    /\ At(c, "dequeue", "lpush")
    /\ processing' = LPush(processing, found[c])
    /\ pc' = [pc EXCEPT ![c] = "in_relget"]
    /\ UNCHANGED <<lock, pending, failed, result, doc, nextJob, op, arg,
                   att, idx, jobs, found, todo, ret, pre, requeues, env>>

\* After withList: if (!result) break; else jobs.push(result) and i++.
AfterInner(c) ==
    IF found[c] = NoJob
    THEN AfterLoop(jobs[c])
    ELSE IF idx[c] + 1 < MAX_JOBS_PER_WORKER
         THEN "in_acq"
         ELSE AfterLoop(Append(jobs[c], found[c]))

LoopLocals(c) ==
    IF found[c] = NoJob
    THEN UNCHANGED <<idx, jobs, found>>
    ELSE /\ idx' = [idx EXCEPT ![c] = idx[c] + 1]
         /\ jobs' = [jobs EXCEPT ![c] = Append(jobs[c], found[c])]
         /\ found' = [found EXCEPT ![c] = NoJob]

DequeueInnerReleaseGet(c) ==
    /\ At(c, "dequeue", "in_relget")
    /\ ReleaseGet(c, QUEUE_KEY, "inner", "in_reldel", AfterInner(c))
    /\ IF pc'[c] = "in_reldel"
       THEN UNCHANGED <<idx, jobs, found>>
       ELSE LoopLocals(c)
    /\ UNCHANGED <<Lists, result, doc, nextJob, op, arg, att, todo, ret,
                   pre, requeues, env>>

DequeueInnerReleaseDel(c) ==
    /\ At(c, "dequeue", "in_reldel")
    /\ ReleaseDel(c, QUEUE_KEY, AfterInner(c))
    /\ LoopLocals(c)
    /\ UNCHANGED <<Lists, result, doc, nextJob, op, arg, att, todo, ret,
                   pre, requeues, env>>

\* atomicOps.withHash(WORKER_STATUS_KEY, ...): lock:worker_status is taken,
\* HGETALL is read, the callback edits the object it was handed and returns
\* it, and the lock is released; nothing is written to the hash.  No other
\* queue operation touches lock:worker_status and nothing depends on whether
\* it was obtained, so the whole call is one step that changes nothing.
DequeueWithHash(c) ==
    /\ At(c, "dequeue", "hash")
    /\ pc' = [pc EXCEPT ![c] = "relget"]
    /\ UNCHANGED <<store, op, arg, att, idx, jobs, found, todo, ret, pre,
                   requeues, env>>

DequeueReleaseGet(c) ==
    /\ At(c, "dequeue", "relget")
    /\ ReleaseGet(c, QUEUE_KEY, "outer", "reldel", "idle")
    /\ FinishIfIdle(c, DequeueRet(jobs[c]))
    /\ UNCHANGED <<Lists, result, doc, nextJob, att, pre, requeues, env>>

DequeueReleaseDel(c) ==
    /\ At(c, "dequeue", "reldel")
    /\ ReleaseDel(c, QUEUE_KEY, "idle")
    /\ Finish(c, DequeueRet(jobs[c]))
    /\ UNCHANGED <<Lists, result, doc, nextJob, att, pre, requeues, env>>

\* ------------------------------------------------------------ complete
CompleteRet(ok, j) == [NoRet EXCEPT !.op = "complete", !.ok = ok, !.job = j]

CompleteCall(c, j) ==
    Call(c, "complete", [NoArg EXCEPT !.job = j], "acq",
         processing, PROCESSING_KEY)

\* The outer withLock(PROCESSING_KEY, ...): no lock, result ?? false.
CompleteAcquire(c) ==
    /\ At(c, "complete", "acq")
    /\ AcquireStep(c, PROCESSING_KEY, "outer", "in_acq", "idle")
    /\ FinishIfIdle(c, CompleteRet(FALSE, arg[c].job))
    /\ UNCHANGED <<Lists, result, doc, nextJob, pre, requeues, env>>

\* atomicOps.withList(PROCESSING_KEY, ...) takes lock:indexing_processing
\* again; without it processingJob is null and the callback returns false.
CompleteInnerAcquire(c) ==
    /\ At(c, "complete", "in_acq")
    /\ AcquireStep(c, PROCESSING_KEY, "inner", "lrange", "relget")
    /\ UNCHANGED <<Lists, result, doc, nextJob, op, arg, idx, jobs, found,
                   todo, ret, pre, requeues, env>>

\* LRANGE and the scan for jobId.
CompleteLRange(c) ==
    /\ At(c, "complete", "lrange")
    /\ found' = [found EXCEPT ![c] = FindJob(processing, arg[c].job)]
    /\ pc' = [pc EXCEPT ![c] = IF found'[c] = NoJob THEN "in_relget" ELSE "lrem"]
    /\ UNCHANGED <<store, op, arg, att, idx, jobs, todo, ret, pre, requeues,
                   env>>

\* LREM key 1 <the entry that was read>.
CompleteLRem(c) ==
    /\ At(c, "complete", "lrem")
    /\ processing' = LRem(processing, found[c])
    /\ pc' = [pc EXCEPT ![c] = "in_relget"]
    /\ UNCHANGED <<lock, pending, failed, result, doc, nextJob, op, arg, att,
                   idx, jobs, found, todo, ret, pre, requeues, env>>

\* After withList: if (!processingJob) return false; else the Promise.all.
CompleteAfterInner(c) == IF found[c] = NoJob THEN "relget" ELSE "write"

CompleteInnerReleaseGet(c) ==
    /\ At(c, "complete", "in_relget")
    /\ ReleaseGet(c, PROCESSING_KEY, "inner", "in_reldel", CompleteAfterInner(c))
    /\ UNCHANGED <<Lists, result, doc, nextJob, op, arg, att, idx, jobs,
                   found, todo, ret, pre, requeues, env>>

CompleteInnerReleaseDel(c) ==
    /\ At(c, "complete", "in_reldel")
    /\ ReleaseDel(c, PROCESSING_KEY, CompleteAfterInner(c))
    /\ UNCHANGED <<Lists, result, doc, nextJob, op, arg, att, idx, jobs,
                   found, todo, ret, pre, requeues, env>>

\* The arguments of the Promise.all are evaluated: `result` in
\* JSON.stringify({result, ...}) is the const being initialised, not the
\* parameter.  Reading it throws in a build that keeps const: the inner
\* catch returns false and no store call is made.  In a build that lowers
\* const to var it is undefined, and SET and HSET are issued.
CompleteWrite(c) ==
    /\ At(c, "complete", "write")
    /\ build' \in (IF build = AnyBuild THEN Builds ELSE {build})
    /\ IF build' = "es2015"
       THEN /\ found' = [found EXCEPT ![c] = NoJob]
            /\ todo' = todo
            /\ pc' = [pc EXCEPT ![c] = "relget"]
       ELSE /\ found' = found
            /\ todo' = [todo EXCEPT ![c] = {"set"}]
            /\ pc' = [pc EXCEPT ![c] = "all"]
    /\ UNCHANGED <<store, op, arg, att, idx, jobs, ret, pre, requeues,
                   expiries, expired, watch, indexer, calls, pool>>

StoreCalls == {"lpush", "set"}

AllDone(c, call) ==
    IF todo[c] \cap StoreCalls = {call} THEN "relget" ELSE "all"

\* HSET document:<docId> {status: s, ...}.  The upload route stores
\* document:<docId> with SET, its failure ignored.  On a key that holds a
\* string the store answers HSET with a WRONGTYPE error and leaves the key
\* alone; on an absent key or a hash the field is written.  What the key
\* holds is settled the first time an operation looks at it.
HSetDoc(d, s) ==
    IF d = "unknown" THEN {"string", s}
    ELSE IF d = "string" THEN {"string"}
    ELSE {s}

\* The Promise.all rejects, and the inner catch returns false, when the HSET
\* was refused.
Threw(d) == IF d = "string" THEN {"threw"} ELSE {}

\* The callback returned true iff it got past the Promise.all.
ReturnedTrue(c) == found[c] # NoJob /\ "threw" \notin todo[c]

\* SET indexing_result:<jobId> {result, docId, completedAt, status} EX 86400
\* and HSET document:<docId> {status: indexed, indexedAt}.  No queue
\* operation reads document:<docId>, so the order in which the store serves
\* the two calls is not observable: they are one step.
CompleteSet(c) ==
    /\ At(c, "complete", "all")
    /\ "set" \in todo[c]
    /\ result' = [result EXCEPT ![arg[c].job] =
                      [status |-> "completed", data |-> "undefined"]]
    /\ \E d \in HSetDoc(doc[arg[c].job], "indexed") :
          /\ doc' = [doc EXCEPT ![arg[c].job] = d]
          /\ todo' = [todo EXCEPT ![c] = (todo[c] \ {"set"}) \cup Threw(d)]
    /\ pc' = [pc EXCEPT ![c] = AllDone(c, "set")]
    /\ UNCHANGED <<lock, Lists, nextJob, op, arg, att, idx, jobs, found,
                   ret, pre, requeues, env>>

CompleteReleaseGet(c) ==
    /\ At(c, "complete", "relget")
    /\ ReleaseGet(c, PROCESSING_KEY, "outer", "reldel", "idle")
    /\ FinishIfIdle(c, CompleteRet(ReturnedTrue(c), arg[c].job))
    /\ UNCHANGED <<Lists, result, doc, nextJob, att, pre, requeues, env>>

CompleteReleaseDel(c) ==
    /\ At(c, "complete", "reldel")
    /\ ReleaseDel(c, PROCESSING_KEY, "idle")
    /\ Finish(c, CompleteRet(ReturnedTrue(c), arg[c].job))
    /\ UNCHANGED <<Lists, result, doc, nextJob, att, pre, requeues, env>>

\* --------------------------------------------------------------- fail
FailRet(ok, j) == [NoRet EXCEPT !.op = "fail", !.ok = ok, !.job = j]

FailCall(c, j, retry) ==
    Call(c, "fail", [NoArg EXCEPT !.job = j, !.retry = retry], "acq",
         processing, PROCESSING_KEY)

FailAcquire(c) ==
    /\ At(c, "fail", "acq")
    /\ AcquireStep(c, PROCESSING_KEY, "outer", "in_acq", "idle")
    /\ FinishIfIdle(c, FailRet(FALSE, arg[c].job))
    /\ UNCHANGED <<Lists, result, doc, nextJob, pre, requeues, env>>

FailInnerAcquire(c) ==
    /\ At(c, "fail", "in_acq")
    /\ AcquireStep(c, PROCESSING_KEY, "inner", "lrange", "relget")
    /\ UNCHANGED <<Lists, result, doc, nextJob, op, arg, idx, jobs, found,
                   todo, ret, pre, requeues, env>>

FailLRange(c) ==
    /\ At(c, "fail", "lrange")
    /\ found' = [found EXCEPT ![c] = FindJob(processing, arg[c].job)]
    /\ pc' = [pc EXCEPT ![c] = IF found'[c] = NoJob THEN "in_relget" ELSE "lrem"]
    /\ UNCHANGED <<store, op, arg, att, idx, jobs, todo, ret, pre, requeues,
                   env>>

FailLRem(c) ==
    /\ At(c, "fail", "lrem")
    /\ processing' = LRem(processing, found[c])
    /\ pc' = [pc EXCEPT ![c] = "in_relget"]
    /\ UNCHANGED <<lock, pending, failed, result, doc, nextJob, op, arg, att,
                   idx, jobs, found, todo, ret, pre, requeues, env>>

\* if (retry && (processingJob.attempts || 0) < 3)
ShouldRetry(retry, job) == retry /\ job.attempts < MAX_ATTEMPTS

\* After withList: if (!processingJob) return false; else retry or fail.
FailAfterInner(c) ==
    IF found[c] = NoJob THEN "relget"
    ELSE IF ShouldRetry(arg[c].retry, found[c]) THEN "rpush" ELSE "all"

FailTodo(c) ==
    IF found[c] # NoJob /\ ~ShouldRetry(arg[c].retry, found[c])
    THEN {"lpush", "set"}
    ELSE {}

FailInnerReleaseGet(c) ==
    /\ At(c, "fail", "in_relget")
    /\ ReleaseGet(c, PROCESSING_KEY, "inner", "in_reldel", FailAfterInner(c))
    /\ todo' = [todo EXCEPT ![c] = IF pc'[c] = "all" THEN FailTodo(c) ELSE {}]
    /\ UNCHANGED <<Lists, result, doc, nextJob, op, arg, att, idx, jobs,
                   found, ret, pre, requeues, env>>

FailInnerReleaseDel(c) ==
    /\ At(c, "fail", "in_reldel")
    /\ ReleaseDel(c, PROCESSING_KEY, FailAfterInner(c))
    /\ todo' = [todo EXCEPT ![c] = FailTodo(c)]
    /\ UNCHANGED <<Lists, result, doc, nextJob, op, arg, att, idx, jobs,
                   found, ret, pre, requeues, env>>

\* RPUSH indexing_queue <the entry as it was read, attempts kept>
FailRPush(c) ==
    /\ At(c, "fail", "rpush")
    /\ pending' = RPush(pending, found[c])
    /\ requeues' = [requeues EXCEPT ![arg[c].job] =
                        IF watch THEN Min(@ + 1, MAX_ATTEMPTS) ELSE @]
    /\ pc' = [pc EXCEPT ![c] = "relget"]
    /\ UNCHANGED <<lock, processing, failed, result, doc, nextJob, op, arg,
                   att, idx, jobs, found, todo, ret, pre, env>>

\* LPUSH indexing_failed {...processingJob, error, failedAt}
FailLPush(c) ==
    /\ At(c, "fail", "all")
    /\ "lpush" \in todo[c]
    /\ failed' = LPush(failed, found[c])
    /\ todo' = [todo EXCEPT ![c] = todo[c] \ {"lpush"}]
    /\ pc' = [pc EXCEPT ![c] = AllDone(c, "lpush")]
    /\ UNCHANGED <<lock, pending, processing, result, doc, nextJob, op, arg,
                   att, idx, jobs, found, ret, pre, requeues, env>>

\* SET indexing_result:<jobId> {error, docId, failedAt, status} EX 86400
\* and HSET document:<docId> {status: failed, error, failedAt}, one step as
\* in complete.
FailSet(c) ==
    /\ At(c, "fail", "all")
    /\ "set" \in todo[c]
    /\ result' = [result EXCEPT ![arg[c].job] =
                      [status |-> "failed", data |-> "error"]]
    /\ \E d \in HSetDoc(doc[arg[c].job], "failed") :
          /\ doc' = [doc EXCEPT ![arg[c].job] = d]
          /\ todo' = [todo EXCEPT ![c] = (todo[c] \ {"set"}) \cup Threw(d)]
    /\ pc' = [pc EXCEPT ![c] = AllDone(c, "set")]
    /\ UNCHANGED <<lock, Lists, nextJob, op, arg, att, idx, jobs, found,
                   ret, pre, requeues, env>>

FailReleaseGet(c) ==
    /\ At(c, "fail", "relget")
    /\ ReleaseGet(c, PROCESSING_KEY, "outer", "reldel", "idle")
    /\ FinishIfIdle(c, FailRet(ReturnedTrue(c), arg[c].job))
    /\ UNCHANGED <<Lists, result, doc, nextJob, att, pre, requeues, env>>

FailReleaseDel(c) ==
    /\ At(c, "fail", "reldel")
    /\ ReleaseDel(c, PROCESSING_KEY, "idle")
    /\ Finish(c, FailRet(ReturnedTrue(c), arg[c].job))
    /\ UNCHANGED <<Lists, result, doc, nextJob, att, pre, requeues, env>>

\* --------------------------------------------------------- store faults
\* The store fails one call of a queue operation (a transient
\* unavailability): the call rejects and leaves the store alone.
Faultless == <<expiries, expired, build, watch, calls, pool, text, chunkSize,
               chunks, nchunks, progress, batches, di, derr, dnew, aside>>

\* dequeue: redis.lpush(PROCESSING_KEY, ...) rejects after the rpop; the
\* catch inside the withList callback returns null, and the loop breaks.
DequeueFault(c) ==
    /\ At(c, "dequeue", "lpush")
    /\ faults < MaxFaults
    /\ faults' = faults + 1
    /\ found' = [found EXCEPT ![c] = NoJob]
    /\ pc' = [pc EXCEPT ![c] = "in_relget"]
    /\ UNCHANGED <<store, op, arg, att, idx, jobs, todo, ret, pre, requeues,
                   Faultless>>

\* complete: the SET of the Promise.all rejects after the lrem; the HSET is
\* issued all the same, and the inner catch returns false.
CompleteFault(c) ==
    /\ At(c, "complete", "all")
    /\ "set" \in todo[c]
    /\ faults < MaxFaults
    /\ faults' = faults + 1
    /\ \E d \in HSetDoc(doc[arg[c].job], "indexed") :
          doc' = [doc EXCEPT ![arg[c].job] = d]
    /\ todo' = [todo EXCEPT ![c] = {"threw"}]
    /\ pc' = [pc EXCEPT ![c] = "relget"]
    /\ UNCHANGED <<lock, Lists, result, nextJob, op, arg, att, idx, jobs,
                   found, ret, pre, requeues, Faultless>>

\* fail: the LPUSH of the Promise.all rejects after the lrem; the other
\* calls are issued all the same, and the inner catch returns false.
FailFault(c) ==
    /\ At(c, "fail", "all")
    /\ "lpush" \in todo[c]
    /\ faults < MaxFaults
    /\ faults' = faults + 1
    /\ todo' = [todo EXCEPT ![c] = (todo[c] \ {"lpush"}) \cup {"threw"}]
    /\ pc' = [pc EXCEPT ![c] = AllDone(c, "lpush")]
    /\ UNCHANGED <<store, op, arg, att, idx, jobs, found, ret, pre, requeues,
                   Faultless>>

\* ----------------------------------------------------------- withLock
\* lockManager.withLock(key, fn) called directly, fn being any critical
\* section: acquireLock, then fn, then releaseLock in the finally.
\* ok: fn ran and returned; val: how the call ended.
WithLockRet(how) ==
    [NoRet EXCEPT !.op = "withLock", !.ok = (how = "returned"), !.val = <<how>>]

WithLockCall(c, k) ==
    Call(c, "withLock", [NoArg EXCEPT !.key = k], "acq", <<>>, k)

\* if (!lockValue) return null
WithLockAcquire(c) ==
    /\ At(c, "withLock", "acq")
    /\ AcquireStep(c, arg[c].key, "outer", "body", "idle")
    /\ FinishIfIdle(c, WithLockRet("null"))
    /\ UNCHANGED <<Lists, result, doc, nextJob, pre, requeues, env>>

\* return await fn(): fn returns or throws, and the finally runs.
WithLockBody(c) ==
    /\ At(c, "withLock", "body")
    /\ pc' = [pc EXCEPT ![c] = "relget"]
    /\ \E t \in {{}, {"threw"}} : todo' = [todo EXCEPT ![c] = t]
    /\ UNCHANGED <<store, op, arg, att, idx, jobs, found, ret, pre,
                   requeues, env>>

WithLockEnd(c) == IF "threw" \in todo[c] THEN "threw" ELSE "returned"

WithLockReleaseGet(c) ==
    /\ At(c, "withLock", "relget")
    /\ ReleaseGet(c, arg[c].key, "outer", "reldel", "idle")
    /\ FinishIfIdle(c, WithLockRet(WithLockEnd(c)))
    /\ UNCHANGED <<Lists, result, doc, nextJob, att, pre, requeues, env>>

WithLockReleaseDel(c) ==
    /\ At(c, "withLock", "reldel")
    /\ ReleaseDel(c, arg[c].key, "idle")
    /\ Finish(c, WithLockRet(WithLockEnd(c)))
    /\ UNCHANGED <<Lists, result, doc, nextJob, att, pre, requeues, env>>

\* ---------------------------------------------------------- getAndSet
\* atomicOps.getAndSet(key, v => v + 1): withLock(key, ...) around a get, the
\* update function and a set.  seen: the value read, then the value written.
GetAndSetRet(how) ==
    [NoRet EXCEPT !.op = "getAndSet", !.ok = (how = "updated"), !.val = <<how>>]

\* What getAndSet leaves alone.
Uncounted == <<Lists, result, doc, nextJob, pre, requeues, expiries, expired,
               build, watch, calls, pool, text, chunkSize, chunks, tracker,
               splitter, written, activeJobs>>

GetAndSetCall(c, k) ==
    Call(c, "getAndSet", [NoArg EXCEPT !.key = k], "acq", <<>>, k)

\* getAndSet whose withLock runs fn without the lock.
GetAndSetNoLock(c) ==
    /\ At(c, "getAndSet", "acq")
    /\ pc' = [pc EXCEPT ![c] = "get"]
    /\ UNCHANGED <<lock, att, op, ret, arg, idx, jobs, found, todo>>
    /\ UNCHANGED <<Uncounted, counter>>

\* withLock: if (!token) return null
GetAndSetAcquire(c) ==
    /\ At(c, "getAndSet", "acq")
    /\ AcquireStep(c, arg[c].key, "outer", "get", "idle")
    /\ FinishIfIdle(c, GetAndSetRet("null"))
    /\ UNCHANGED <<Uncounted, counter>>

\* const current = await safeRedisGet(key)
GetAndSetGet(c) ==
    /\ At(c, "getAndSet", "get")
    /\ arg' = [arg EXCEPT ![c].seen = <<value[arg[c].key]>>]
    /\ pc' = [pc EXCEPT ![c] = "set"]
    /\ UNCHANGED <<store, op, att, idx, jobs, found, todo, ret>>
    /\ UNCHANGED <<Uncounted, counter>>

\* const updated = await updateFn(current); await this.redis.set(key, ...)
GetAndSetSet(c) ==
    /\ At(c, "getAndSet", "set")
    /\ value' = [value EXCEPT ![arg[c].key] = arg[c].seen[1] + 1]
    /\ pc' = [pc EXCEPT ![c] = "relget"]
    /\ UNCHANGED <<store, op, arg, att, idx, jobs, found, todo, ret>>
    /\ UNCHANGED <<Uncounted, updates>>

\* return updated, through the finally of withLock
GetAndSetReleaseGet(c) ==
    /\ At(c, "getAndSet", "relget")
    /\ ReleaseGet(c, arg[c].key, "outer", "reldel", "idle")
    /\ FinishIfIdle(c, GetAndSetRet("updated"))
    /\ updates' = IF pc'[c] = "idle"
                  THEN [updates EXCEPT ![arg[c].key] = @ + 1]
                  ELSE updates
    /\ UNCHANGED <<Lists, result, doc, nextJob, att>>
    /\ UNCHANGED <<Uncounted, value>>

GetAndSetReleaseDel(c) ==
    /\ At(c, "getAndSet", "reldel")
    /\ ReleaseDel(c, arg[c].key, "idle")
    /\ Finish(c, GetAndSetRet("updated"))
    /\ updates' = [updates EXCEPT ![arg[c].key] = @ + 1]
    /\ UNCHANGED <<Lists, result, doc, nextJob, att>>
    /\ UNCHANGED <<Uncounted, value>>

\* -------------------------------------------------------- acquireLock
\* lockManager.acquireLock(key) called directly: the token or null, and in
\* val the number of SET NX calls the call made.
AcquireRet(ok, n) ==
    [NoRet EXCEPT !.op = "acquireLock", !.ok = ok, !.val = <<n>>]

AcquireCall(c, k) ==
    Call(c, "acquireLock", [NoArg EXCEPT !.key = k], "acq", <<>>, k)

AcquireLock(c) ==
    /\ At(c, "acquireLock", "acq")
    /\ AcquireStep(c, arg[c].key, "outer", "idle", "idle")
    /\ FinishIfIdle(c, AcquireRet(lock[arg[c].key] = NoToken, att[c] + 1))
    /\ UNCHANGED <<Lists, result, doc, nextJob, pre, requeues, env>>

\* --------------------------------------------------- withMultipleKeys
\* [...keys].sort(): insertion of each key at its place in the order.
Rank(k) == CHOOSE i \in 1..Len(KeyOrder) : KeyOrder[i] = k

RECURSIVE Insert(_, _)
Insert(k, s) ==
    IF s = <<>> THEN <<k>>
    ELSE IF Rank(k) <= Rank(Head(s)) THEN <<k>> \o s
    ELSE <<Head(s)>> \o Insert(k, Tail(s))

RECURSIVE Sort(_)
Sort(s) == IF s = <<>> THEN <<>> ELSE Insert(Head(s), Sort(Tail(s)))

\* A condition that lets the operation run whatever was acquired.
AllAcquiredAny(n, ks) == n >= 0

\* lastLockIndex === sortedKeys.length - 1, with n = lastLockIndex + 1.
AllAcquired(n, ks) == n = Len(ks)

\* Where withMultipleKeys goes when its acquisition loop has ended with n
\* locks: to the operation, or to the release loop of the finally block,
\* which has nothing to do when n = 0.
AfterAcquire(n, ks) ==
    IF AllAcquired(n, ks) THEN "op"
    ELSE IF n = 0 THEN "idle" ELSE "relget"

\* The operations that run under withMultipleKeys.
MultiOps == {"withMultipleKeys", "getStats", "getJobStatus"}

InMulti(c, label) == Runs(c) /\ op[c] \in MultiOps /\ pc[c] = label

\* `result` as withMultipleKeys returns it: null unless the operation ran
\* and returned; a throw of the operation leaves through the finally.
MultiEnd(c) ==
    IF "threw" \in todo[c] THEN "threw"
    ELSE IF "ran" \in todo[c] THEN "returned" ELSE "null"

\* What the caller of withMultipleKeys returns: getStats has
\* stats ?? {queued: 0, processing: 0, failed: 0}, getJobStatus has
\* ... ?? null.
MultiRet(c) ==
    LET ran == MultiEnd(c) = "returned"
    IN [NoRet EXCEPT
           !.op = op[c],
           !.ok = ran,
           !.job = arg[c].job,
           !.val = IF op[c] = "getStats"
                   THEN IF ran THEN arg[c].seen ELSE <<0, 0, 0>>
                   ELSE IF op[c] = "getJobStatus"
                   THEN IF ran THEN arg[c].seen ELSE <<"none">>
                   ELSE <<MultiEnd(c)>>]

\* idx[c] counts the locks acquired (lastLockIndex + 1), then the locks
\* still to release.
MultiNext(c, n, r) ==
    IF pc'[c] = "idle"
    THEN Finish(c, r)
    ELSE /\ idx' = [idx EXCEPT ![c] = n]
         /\ UNCHANGED <<op, ret, arg, jobs, found, todo>>

\* The caller passes ks; sortedKeys is what the call works with.  l is
\* what the keys hold at the call.
MultiCall(c, name, a, ks, l) ==
    /\ op[c] = "idle"
    /\ op' = [op EXCEPT ![c] = name]
    /\ pc' = [pc EXCEPT ![c] = IF ks = <<>> THEN "op" ELSE "acq"]
    /\ arg' = [arg EXCEPT ![c] = [a EXCEPT !.keys = Sort(ks)]]
    /\ ret' = [ret EXCEPT ![c] = NoRet]
    /\ pre' = [pre EXCEPT ![c] = IF watch THEN [NoPre EXCEPT !.list = l]
                                 ELSE NoPre]
    /\ UNCHANGED <<store, att, idx, jobs, found, todo, requeues, expiries,
                   expired, build, watch, indexer>>

\* for (i ...) token = await acquireLock(sortedKeys[i]); if (!token) break
MultiAcquire(c) ==
    /\ InMulti(c, "acq")
    /\ LET ks == arg[c].keys
           k == ks[idx[c] + 1]
           got == lock[k] = NoToken
           n == IF got THEN idx[c] + 1 ELSE idx[c]
       IN /\ AcquireStep(c, k, "multi",
                         IF n < Len(ks) THEN "acq" ELSE AfterAcquire(n, ks),
                         AfterAcquire(n, ks))
          /\ MultiNext(c, n, MultiRet(c))
    /\ UNCHANGED <<Lists, result, doc, nextJob, pre, requeues, env>>

\* result = await operation(); finally: release from lastLockIndex down.
MultiOperation(c) ==
    /\ InMulti(c, "op")
    /\ op[c] = "withMultipleKeys"
    /\ \E t \in {{"ran"}, {"ran", "threw"}} :
          /\ pc' = [pc EXCEPT ![c] = IF idx[c] = 0 THEN "idle" ELSE "relget"]
          /\ IF idx[c] = 0
             THEN Finish(c, [MultiRet(c) EXCEPT
                                !.ok = ("threw" \notin t),
                                !.val = <<IF "threw" \in t THEN "threw"
                                          ELSE "returned">>])
             ELSE /\ todo' = [todo EXCEPT ![c] = t]
                  /\ UNCHANGED <<op, ret, arg, idx, jobs, found>>
    /\ UNCHANGED <<store, att, pre, requeues, env>>

\* for (i = lastLockIndex; i >= 0; i--) await releaseLock(sortedKeys[i],
\* locks[i]): its GET,
MultiReleaseGet(c) ==
    /\ InMulti(c, "relget")
    /\ LET k == arg[c].keys[idx[c]]
           mine == lock[k] = Token(c, "multi")
       IN /\ ReleaseGet(c, k, "multi", "reldel",
                        IF idx[c] = 1 THEN "idle" ELSE "relget")
          /\ MultiNext(c, IF mine THEN idx[c] ELSE idx[c] - 1, MultiRet(c))
    /\ UNCHANGED <<Lists, result, doc, nextJob, att, pre, requeues, env>>

\* ... and its DEL.
MultiReleaseDel(c) ==
    /\ InMulti(c, "reldel")
    /\ ReleaseDel(c, arg[c].keys[idx[c]],
                  IF idx[c] = 1 THEN "idle" ELSE "relget")
    /\ MultiNext(c, idx[c] - 1, MultiRet(c))
    /\ UNCHANGED <<Lists, result, doc, nextJob, att, pre, requeues, env>>

\* ----------------------------------------------------------- getStats
Unread == 0 - 1

GetStatsCall(c) ==
    MultiCall(c, "getStats", [NoArg EXCEPT !.seen = <<Unread, Unread, Unread>>],
              <<QUEUE_KEY, PROCESSING_KEY, FAILED_QUEUE>>,
              <<pending, processing, failed>>)

\* Promise.all([llen(QUEUE_KEY), llen(PROCESSING_KEY), llen(FAILED_QUEUE)]):
\* three store calls, answered in any order; the operation returns when the
\* last answer is in.
GetStatsLLen(c) ==
    /\ InMulti(c, "op")
    /\ op[c] = "getStats"
    /\ \E i \in 1..3 :
          /\ arg[c].seen[i] = Unread
          /\ LET n == Len(<<pending, processing, failed>>[i])
                 seen == [arg[c].seen EXCEPT ![i] = n]
             IN /\ arg' = [arg EXCEPT ![c].seen = seen]
                /\ IF \E k \in 1..3 : seen[k] = Unread
                   THEN UNCHANGED <<pc, todo>>
                   ELSE /\ pc' = [pc EXCEPT ![c] = "relget"]
                        /\ todo' = [todo EXCEPT ![c] = {"ran"}]
    /\ UNCHANGED <<store, op, att, idx, jobs, found, ret, pre, requeues, env>>

\* ------------------------------------------------------- getJobStatus
GetJobStatusCall(c, j) ==
    MultiCall(c, "getJobStatus", [NoArg EXCEPT !.job = j],
              <<ResultKey(j), PROCESSING_KEY, QUEUE_KEY, FAILED_QUEUE>>,
              <<pending, processing, failed>>)

\* The operation returns status s, or goes on to the next lookup.
GetJobStatusStep(c, hit, s, next) ==
    /\ IF hit
       THEN /\ arg' = [arg EXCEPT ![c].seen = <<s>>]
            /\ pc' = [pc EXCEPT ![c] = "relget"]
            /\ todo' = [todo EXCEPT ![c] = {"ran"}]
       ELSE /\ pc' = [pc EXCEPT ![c] = next]
            /\ UNCHANGED <<arg, todo>>
    /\ UNCHANGED <<store, op, att, idx, jobs, found, ret, pre, requeues, env>>

\* result = await redis.get(indexing_result:<jobId>); if (result) return
\* {status: parsed.status, ...}
GetJobStatusGet(c) ==
    /\ InMulti(c, "op")
    /\ op[c] = "getJobStatus"
    /\ GetJobStatusStep(c, result[arg[c].job] # NoResult,
                        result[arg[c].job].status, "processing")

\* lrange(PROCESSING_KEY, 0, -1) and its scan
GetJobStatusProcessing(c) ==
    /\ InMulti(c, "processing")
    /\ GetJobStatusStep(c, arg[c].job \in Ids(processing), "processing",
                        "queue")

\* lrange(QUEUE_KEY, 0, -1) and its scan
GetJobStatusQueue(c) ==
    /\ InMulti(c, "queue")
    /\ GetJobStatusStep(c, arg[c].job \in Ids(pending), "queued", "failed")

\* lrange(FAILED_QUEUE, 0, -1) and its scan; then return null
GetJobStatusFailed(c) ==
    /\ InMulti(c, "failed")
    /\ GetJobStatusStep(c, TRUE,
                        IF arg[c].job \in Ids(failed) THEN "failed"
                        ELSE "none",
                        "relget")

\* -------------------------------------------------- WorkerPoolManager
\* What document:<docId> can hold when a document was stored: nothing (the
\* SET failed, or no upload was made), the upload route's metadata, which
\* has no content field, or a record whose content is "" or a text.
Stored == {"absent", "meta", "empty", "text"}

\* safeRedisGet(document:<docId>): what the key turns out to hold.  A hash
\* ("indexed", "failed") makes GET fail, which safeRedisGet turns into null.
GetDoc(d) ==
    IF d = "unknown" THEN Stored
    ELSE IF d = "string" THEN Stored \ {"absent"}
    ELSE {d}

\* while (isRunning): jobs = await queue.dequeue(workerId)
WorkerPoll(w) ==
    /\ Runs(w)
    /\ wpc[w] = "poll"
    /\ isRunning[w]
    /\ DequeueCall(w)
    /\ wpc' = [wpc EXCEPT ![w] = "dequeue"]
    /\ UNCHANGED <<calls, isRunning, dpc, tjob, tpc>>

Index(t) == CHOOSE i \in 1..Len(TaskSeq) : TaskSeq[i] = t

\* dequeue has returned: an empty batch sends the loop to sleep and poll
\* again, else jobs.map(job => processJob(job)) starts one call per job.
WorkerGot(w) ==
    /\ Runs(w)
    /\ wpc[w] = "dequeue"
    /\ op[w] = "idle"
    /\ Len(ret[w].jobs) <= Len(TaskSeq)
    /\ IF ret[w].jobs = <<>>
       THEN /\ wpc' = [wpc EXCEPT ![w] = "poll"]
            /\ UNCHANGED <<tjob, tpc>>
       ELSE /\ wpc' = [wpc EXCEPT ![w] = "await"]
            /\ tjob' = [t \in Tasks |->
                           IF Index(t) <= Len(ret[w].jobs)
                           THEN ret[w].jobs[Index(t)] ELSE NoJob]
            /\ tpc' = [t \in Tasks |->
                          IF Index(t) <= Len(ret[w].jobs) THEN "get" ELSE "free"]
    /\ UNCHANGED <<store, local, requeues, expiries, expired, build, watch,
                   indexer, calls, isRunning, dpc>>

\* await Promise.all(...) is over when every processJob has returned.
WorkerJoin(w) ==
    /\ Runs(w)
    /\ wpc[w] = "await"
    /\ \A t \in Tasks : tpc[t] \in {"free", "done"}
    /\ wpc' = [wpc EXCEPT ![w] = "poll"]
    /\ tjob' = [t \in Tasks |-> NoJob]
    /\ tpc' = [t \in Tasks |-> "free"]
    /\ UNCHANGED <<store, local, requeues, expiries, expired, build, watch,
                   indexer, calls, isRunning, dpc>>

\* stop(): this.isRunning = false.  It runs on the worker's event loop, so
\* not while createChunks keeps that loop busy.
Stop(w) ==
    /\ Runs(w)
    /\ isRunning[w]
    /\ isRunning' = [isRunning EXCEPT ![w] = FALSE]
    /\ UNCHANGED <<store, local, requeues, expiries, expired, build, watch,
                   indexer, calls, wpc, tjob, tpc, dpc>>

\* while (this.isRunning) is false: processJobs returns.
WorkerExit(w) ==
    /\ Runs(w)
    /\ wpc[w] = "poll"
    /\ ~isRunning[w]
    /\ wpc' = [wpc EXCEPT ![w] = "stopped"]
    /\ UNCHANGED <<store, local, requeues, expiries, expired, build, watch,
                   indexer, calls, tjob, tpc, isRunning, dpc>>

\* processJob up to its first queue call: the progress record is set to 0
\* (safeRedisSet, which cannot throw), the document is read, and
\* createChunks(docData.content) runs.  No document, or one without a
\* content field, throws; "" gives no chunks and leads straight to
\* complete; a text never gets out of createChunks.
TaskGet(t) ==
    /\ Runs(t)
    /\ tpc[t] = "get"
    /\ \E d \in GetDoc(doc[tjob[t].jobId]) :
          /\ doc' = [doc EXCEPT ![tjob[t].jobId] = d]
          /\ tpc' = [tpc EXCEPT ![t] =
                        IF d = "text" THEN "chunking"
                        ELSE IF d = "empty" THEN "complete"
                        ELSE "fail"]
    /\ UNCHANGED <<lock, Lists, result, nextJob, local, requeues, expiries,
                   expired, build, watch, indexer, calls, isRunning, dpc, wpc,
                   tjob>>

\* await this.queue.complete(job.jobId, {chunks, indexedAt})
TaskComplete(t) ==
    /\ Runs(t)
    /\ tpc[t] = "complete"
    /\ CompleteCall(t, tjob[t].jobId)
    /\ tpc' = [tpc EXCEPT ![t] = "call"]
    /\ UNCHANGED <<calls, isRunning, dpc, wpc, tjob>>

\* catch (error): await this.queue.fail(job.jobId, error): no third
\* argument, so retry is false.
TaskFail(t) ==
    /\ Runs(t)
    /\ tpc[t] = "fail"
    /\ FailCall(t, tjob[t].jobId, FALSE)
    /\ tpc' = [tpc EXCEPT ![t] = "call"]
    /\ UNCHANGED <<calls, isRunning, dpc, wpc, tjob>>

\* complete or fail has returned, whatever it returned: processJob is over.
TaskDone(t) ==
    /\ Runs(t)
    /\ tpc[t] = "call"
    /\ op[t] = "idle"
    /\ tpc' = [tpc EXCEPT ![t] = "done"]
    /\ UNCHANGED <<store, local, requeues, expiries, expired, build, watch,
                   indexer, calls, isRunning, dpc, wpc, tjob>>

\* ----------------------------------- WorkerPoolManager.createChunks
POOL_CHUNK_SIZE == 1000
CHUNK_OVERLAP == 100
\* chunks.length is counted up to MaxPoolChunks.
MaxPoolChunks == 3

\* createChunks is not running.
InitSplitter ==
    /\ ptext = 0
    /\ start = 0
    /\ pchunks = 0
    /\ ploop = "returned"

\* One turn of while (start < text.length): a chunk is pushed and
\* start = end - CHUNK_OVERLAP.
SplitPush ==
    /\ ploop = "loop"
    /\ start < ptext
    /\ pchunks' = Min(pchunks + 1, MaxPoolChunks)
    /\ start' = Min(start + POOL_CHUNK_SIZE, ptext) - CHUNK_OVERLAP
    /\ UNCHANGED <<store, local, requeues, expiries, expired, build, watch,
                   calls, pool, text, chunkSize, chunks, tracker, ptext,
                   ploop, written, counter, activeJobs>>

\* The loop condition is false: return chunks.
SplitReturn ==
    /\ ploop = "loop"
    /\ ~(start < ptext)
    /\ ploop' = "returned"
    /\ UNCHANGED <<store, local, requeues, expiries, expired, build, watch,
                   calls, pool, text, chunkSize, chunks, tracker, ptext,
                   start, pchunks, written, counter,
                   activeJobs>>

\* ------------------------------------------------- worker/indexer.ts
CHUNK_SIZE == 500
\* The distances createChunks allows between the chunk size and a paragraph
\* break (endPos - 200) or a sentence break (endPos - 100).
ParagraphWindow == 200
SentenceWindow == 100

\* Strings are sequences of characters.  What String.prototype.trim removes.
Whitespace == {" ", "\n"}
Chars == {"a", ".", "!"} \cup Whitespace

Max(a, b) == IF a > b THEN a ELSE b

\* text.lastIndexOf(searchString, position): the greatest index, at most
\* position, where searchString starts, or -1.
LastIndexOfFirst(t, p, from) ==
    LET at == {q \in 0..Min(from, Len(t) - Len(p)) : t[q + 1] = Head(p)}
    IN  IF at = {} THEN 0 - 1 ELSE CHOOSE q \in at : \A r \in at : r <= q

LastIndexOf(t, p, from) ==
    LET at == {q \in 0..Min(from, Len(t) - Len(p)) :
                  SubSeq(t, q + 1, q + Len(p)) = p}
    IN  IF at = {} THEN 0 - 1 ELSE CHOOSE q \in at : \A r \in at : r <= q

\* text.substring(a, b), for 0 <= a <= b <= text.length.
SubstringExclusive(t, a, b) == SubSeq(t, a + 1, b - 1)

Substring(t, a, b) == SubSeq(t, a + 1, b)

RECURSIVE TrimStart(_)
TrimStart(t) ==
    IF t # <<>> /\ Head(t) \in Whitespace THEN TrimStart(Tail(t)) ELSE t

RECURSIVE TrimEnd(_)
TrimEnd(t) ==
    IF t # <<>> /\ t[Len(t)] \in Whitespace
    THEN TrimEnd(SubSeq(t, 1, Len(t) - 1)) ELSE t

Trim(t) == TrimEnd(TrimStart(t))

\* endPos when chunks.push is reached, for the chunk that starts at i.
EndPos(t, size, i) ==
    LET endPos == Min(i + size, Len(t))
        paragraphBreak == LastIndexOf(t, <<"\n", "\n">>, endPos)
        sentenceBreak ==
            Max(LastIndexOf(t, <<".", " ">>, endPos),
                Max(LastIndexOf(t, <<"!", " ">>, endPos),
                    LastIndexOf(t, <<"?", " ">>, endPos)))
    IN  IF endPos < Len(t)
        THEN IF paragraphBreak > i /\ paragraphBreak > endPos - ParagraphWindow
             THEN paragraphBreak + 2
             ELSE IF sentenceBreak > i
                     /\ sentenceBreak > endPos - SentenceWindow
                  THEN sentenceBreak + 2
                  ELSE endPos
        ELSE endPos

\* while (i < text.length) { ...; chunks.push(...); i = endPos }
RECURSIVE ChunkLoop(_, _, _, _)
ChunkLoop(t, size, i, acc) ==
    IF i < Len(t)
    THEN LET endPos == EndPos(t, size, i)
         IN  ChunkLoop(t, size, endPos,
                       Append(acc, Trim(Substring(t, i, endPos))))
    ELSE acc

createChunks(t, size) == ChunkLoop(t, size, 0, <<>>)

\* createChunks has not been called: no chunk it returns starts with
\* whitespace.
NoChunks == << <<" ">> >>

\* const chunks = createChunks(content, CHUNK_SIZE)
CreateChunks ==
    /\ chunks = NoChunks
    /\ chunks' = createChunks(text, chunkSize)
    /\ UNCHANGED <<store, local, requeues, expiries, expired, build, watch,
                   calls, pool, text, chunkSize, tracker, aside>>

\* ------------------------------------------------------ ProgressTracker
BATCH_SIZE == 10
MaxBatches == 2

\* progress:<jobId> holds nothing, or a ProgressUpdate; totalChunks 0 stands
\* for a job whose metadata has no totalChunks (undefined).
NoProgress ==
    [present |-> FALSE, progress |-> 0, totalChunks |-> 0, processedChunks |-> 0]

\* initializeProgress(job)
Initialized(total) ==
    [present |-> TRUE, progress |-> 0, totalChunks |-> total,
     processedChunks |-> 0]

Batches == 0..(MaxBatches - 1)
NoBatches == [t \in Tasks, b \in Batches |-> "absent"]
NoNew == [processedChunks |-> 0, progress |-> 0]

\* The ids a chunk of the job's document can be stored under, and the
\* positions of the chunks stored under each.
ChunkIds == 0..(MaxBatches * BATCH_SIZE - 1)
NoWrites == [id \in ChunkIds |-> {}]

InitCounter ==
    /\ value = [k \in LockKeys |-> 0]
    /\ updates = [k \in LockKeys |-> 0]

\* No processDocument call has been started.
InitIdle == InitSplitter /\ written = NoWrites /\ InitCounter

InitAside == InitIdle /\ activeJobs = 0

InitTracker ==
    /\ nchunks = 0
    /\ progress = NoProgress
    /\ batches = NoBatches
    /\ di = [t \in Tasks |-> 0]
    /\ derr = [t \in Tasks |-> FALSE]
    /\ dnew = [t \in Tasks |-> NoNew]
    /\ faults = 0

InitIndexer ==
    /\ text = <<>>
    /\ chunkSize = CHUNK_SIZE
    /\ chunks = NoChunks
    /\ InitTracker
    /\ InitAside

\* What processDocument leaves alone between its queue calls.
Calm == <<lock, Lists, result, nextJob, local, requeues, expiries, expired,
          build, watch, calls, wpc, tjob, tpc, isRunning, text, chunkSize,
          chunks, nchunks, faults, splitter, counter>>
Quiet == <<Calm, written, activeJobs>>

\* processDocument up to the batch loop: the document is read and
\* createChunks(content, CHUNK_SIZE) gives nchunks chunks.  No document, or
\* one without content, throws.
DocGet(t) ==
    /\ Runs(t)
    /\ dpc[t] = "get"
    /\ \E d \in GetDoc(doc[tjob[t].jobId]) :
          /\ doc' = [doc EXCEPT ![tjob[t].jobId] = d]
          /\ dpc' = [dpc EXCEPT ![t] = IF d = "text" THEN "track" ELSE "fail"]
    /\ UNCHANGED <<Quiet, progress, batches, di, derr, dnew>>

\* chunks.slice(i, i + BATCH_SIZE).length
BatchLength(b) == Min(BATCH_SIZE, nchunks - b * BATCH_SIZE)

\* progress.trackBatch(jobId, batchId, i, i + batchChunks.length - 1, ...)
TrackBatch(t) ==
    /\ Runs(t)
    /\ dpc[t] = "track"
    /\ batches' = [batches EXCEPT ![t, di[t]] = "tracked"]
    /\ dpc' = [dpc EXCEPT ![t] = "process"]
    /\ UNCHANGED <<Quiet, doc, progress, di, derr, dnew>>

\* processBatch: absoluteIndex = batchIndex * chunks.length + index, with
\* chunks the batch it is given
AbsoluteIndex(batchIndex, length, index) == batchIndex * length + index

\* The store after processBatch has stored the batch: the chunk at index
\* `index` of batch `batchIndex` is the chunk at position
\* batchIndex * BATCH_SIZE + index of the document (chunks.slice).
StoreBatch(w, batchIndex, length) ==
    [id \in ChunkIds |->
        w[id] \cup {batchIndex * BATCH_SIZE + index :
                        index \in {i \in 0..(length - 1) :
                            AbsoluteIndex(batchIndex, length, i) = id}}]

\* processBatch(...) returns, or throws and the catch takes over: both go
\* on to completeBatch, the catch with the error message.
ProcessBatch(t) ==
    /\ Runs(t)
    /\ dpc[t] = "process"
    /\ \E threw \in BOOLEAN :
          /\ derr' = [derr EXCEPT ![t] = threw]
          /\ written' = IF watch /\ ~threw
                        THEN StoreBatch(written, di[t], BatchLength(di[t]))
                        ELSE written
    /\ dpc' = [dpc EXCEPT ![t] = "cb_get"]
    /\ UNCHANGED <<Calm, activeJobs, doc, progress, batches, di, dnew>>

\* completeBatch has returned, in the try block or in the catch block:
\* i += BATCH_SIZE and the loop condition.
AfterBatch(t) ==
    /\ di' = [di EXCEPT ![t] = @ + 1]
    /\ derr' = [derr EXCEPT ![t] = FALSE]
    /\ dpc' = [dpc EXCEPT ![t] =
                  IF (di[t] + 1) * BATCH_SIZE < nchunks THEN "track"
                  ELSE "docset"]

\* completeBatch: const data = await this.redis.get(key); if (!data) return
CompleteBatchGet(t) ==
    /\ Runs(t)
    /\ dpc[t] = "cb_get"
    /\ IF batches[t, di[t]] = "absent"
       THEN AfterBatch(t)
       ELSE dpc' = [dpc EXCEPT ![t] = "cb_set"] /\ UNCHANGED <<di, derr>>
    /\ UNCHANGED <<Quiet, doc, progress, batches, dnew>>

\* completeBatch: the record is stored with completed: true, and with the
\* error if one was passed.
CompleteBatchSet(t) ==
    /\ Runs(t)
    /\ dpc[t] = "cb_set"
    /\ batches' = [batches EXCEPT ![t, di[t]] =
                      IF derr[t] THEN "failed" ELSE "completed"]
    /\ dpc' = [dpc EXCEPT ![t] = "inc_get"]
    /\ UNCHANGED <<Quiet, doc, progress, di, derr, dnew>>

\* Math.floor((processedChunks / totalChunks) * 100); for the counts used
\* here the quotient is computed exactly wherever it is a whole number.
Percent(processed, total) ==
    IF total # 0 THEN (processed * 100) \div total ELSE 0

\* incrementProcessedChunks: the read, and what it computes from it.
IncrementGet(t) ==
    /\ Runs(t)
    /\ dpc[t] = "inc_get"
    /\ IF ~progress.present
       THEN AfterBatch(t) /\ UNCHANGED dnew
       ELSE /\ dnew' = [dnew EXCEPT ![t] =
                   [processedChunks |->
                        progress.processedChunks + BatchLength(di[t]),
                    progress |->
                        Percent(progress.processedChunks + BatchLength(di[t]),
                                progress.totalChunks)]]
            /\ dpc' = [dpc EXCEPT ![t] = "up_get"]
            /\ UNCHANGED <<di, derr>>
    /\ UNCHANGED <<Quiet, doc, progress, batches>>

\* updateProgress: const currentData = await this.redis.get(key)
UpdateGet(t) ==
    /\ Runs(t)
    /\ dpc[t] = "up_get"
    /\ IF ~progress.present
       THEN AfterBatch(t)
       ELSE dpc' = [dpc EXCEPT ![t] = "up_set"] /\ UNCHANGED <<di, derr>>
    /\ UNCHANGED <<Quiet, doc, progress, batches, dnew>>

\* updateProgress: {...current, ...details, progress} is stored.
UpdateSet(t) ==
    /\ Runs(t)
    /\ dpc[t] = "up_set"
    /\ progress' = [progress EXCEPT
                       !.present = TRUE,
                       !.processedChunks = dnew[t].processedChunks,
                       !.progress = dnew[t].progress]
    /\ AfterBatch(t)
    /\ UNCHANGED <<Quiet, doc, batches, dnew>>

\* The tracker calls the store through the client itself, not through
\* safeRedisGet or safeRedisSet: a call the store fails rejects and changes
\* nothing.  In the try block that leads to the catch block, which calls
\* completeBatch with the error message; in the catch block it leaves the
\* loop for the catch of processDocument.
TrackerCalls == {"track", "cb_get", "cb_set", "inc_get", "up_get", "up_set"}

TrackerFault(t) ==
    /\ Runs(t)
    /\ dpc[t] \in TrackerCalls
    /\ faults < MaxFaults
    /\ faults' = faults + 1
    /\ IF derr[t]
       THEN dpc' = [dpc EXCEPT ![t] = "fail"] /\ UNCHANGED derr
       ELSE /\ dpc' = [dpc EXCEPT ![t] = "cb_get"]
            /\ derr' = [derr EXCEPT ![t] = TRUE]
    /\ UNCHANGED <<lock, Lists, result, nextJob, local, requeues, expiries,
                   expired, build, watch, calls, wpc, tjob, tpc, isRunning,
                   text, chunkSize, chunks, nchunks, doc, progress, batches,
                   di, dnew, aside>>

\* safeRedisSet(`document:${job.docId}`, updatedDoc): the record keeps its
\* content.
DocSet(t) ==
    /\ Runs(t)
    /\ dpc[t] = "docset"
    /\ doc' = [doc EXCEPT ![tjob[t].jobId] = "text"]
    /\ dpc' = [dpc EXCEPT ![t] = "complete"]
    /\ UNCHANGED <<Quiet, progress, batches, di, derr, dnew>>

\* await queue.complete(job.jobId, {chunks, indexedAt, progress: 100})
DocComplete(t) ==
    /\ Runs(t)
    /\ dpc[t] = "complete"
    /\ CompleteCall(t, tjob[t].jobId)
    /\ dpc' = [dpc EXCEPT ![t] = "completing"]
    /\ UNCHANGED <<calls, wpc, tjob, tpc, isRunning>>

\* catch (error): await queue.fail(job.jobId, error)
DocFailCall(t) ==
    /\ Runs(t)
    /\ dpc[t] = "fail"
    /\ FailCall(t, tjob[t].jobId, FALSE)
    /\ dpc' = [dpc EXCEPT ![t] = "failing"]
    /\ UNCHANGED <<wpc, tjob, tpc, isRunning>>

DocFail(t) == DocFailCall(t) /\ UNCHANGED calls

\* ... as one of the queue operations counted in a behaviour.
DocFailCounted(t) ==
    /\ calls < MaxCalls
    /\ calls' = calls + 1
    /\ DocFailCall(t)

\* complete or fail has returned: finally { activeJobs-- } and
\* processDocument is over.
DocDone(t) ==
    /\ Runs(t)
    /\ dpc[t] \in {"completing", "failing"}
    /\ op[t] = "idle"
    /\ dpc' = [dpc EXCEPT ![t] = IF dpc[t] = "completing" THEN "completed"
                                 ELSE "failed"]
    /\ activeJobs' = activeJobs - 1
    /\ UNCHANGED <<Calm, written, doc, progress, batches, di, derr, dnew>>

\* ------------------------------------------- the IndexingQueue without locks
\* The second IndexingQueue class works on the same keys with single store
\* calls and MULTI/EXEC; its jobs carry no workerId.
BareDequeueRet(js) ==
    [NoRet EXCEPT !.op = "dequeue", !.ok = (js # <<>>), !.jobs = js]

\* enqueue: one LPUSH.
BareEnqueue(c) ==
    /\ Runs(c)
    /\ op[c] = "idle"
    /\ nextJob <= MaxJobs
    /\ pending' = LPush(pending,
                        [jobId |-> nextJob, attempts |-> 0, workerId |-> "none"])
    /\ nextJob' = nextJob + 1
    /\ ret' = [ret EXCEPT ![c] = IF watch THEN EnqueueRet(TRUE, nextJob)
                                 ELSE NoRet]
    /\ UNCHANGED <<lock, processing, failed, result, doc, op, pc, arg, att,
                   idx, jobs, found, todo, pre, requeues, env>>

BareDequeueCall(c) ==
    Call(c, "dequeue", NoArg, "rpoplpush", processing, PROCESSING_KEY)

\* LSET key -1 e: the last element of the list becomes e.
LSet(list, e) ==
    IF list = <<>> THEN list ELSE [list EXCEPT ![Len(list)] = e]

\* RPOPLPUSH indexing_queue indexing_processing: the tail of the pending
\* list goes to the head of the processing list; nothing there returns
\* null.  Then job.attempts = (job.attempts || 0) + 1.
BareRPopLPush(c) ==
    /\ At(c, "dequeue", "rpoplpush")
    /\ IF pending = <<>>
       THEN /\ pc' = [pc EXCEPT ![c] = "idle"]
            /\ Finish(c, BareDequeueRet(<<>>))
            /\ UNCHANGED <<pending, processing>>
       ELSE /\ pending' = RPop(pending)
            /\ processing' = LPush(processing, pending[Len(pending)])
            /\ found' = [found EXCEPT ![c] =
                            [pending[Len(pending)] EXCEPT !.attempts = @ + 1]]
            /\ pc' = [pc EXCEPT ![c] = "lset"]
            /\ UNCHANGED <<op, arg, idx, jobs, todo, ret>>
    /\ UNCHANGED <<lock, failed, result, doc, nextJob, att, pre, requeues, env>>

\* lset(PROCESSING_KEY, -1, JSON.stringify(job)); return job
BareLSet(c) ==
    /\ At(c, "dequeue", "lset")
    /\ processing' = LSet(processing, found[c])
    /\ pc' = [pc EXCEPT ![c] = "idle"]
    /\ Finish(c, BareDequeueRet(<<found[c]>>))
    /\ UNCHANGED <<lock, pending, failed, result, doc, nextJob, att, pre,
                   requeues, env>>

BareCompleteCall(c, j) ==
    Call(c, "complete", [NoArg EXCEPT !.job = j], "scan",
         processing, PROCESSING_KEY)

BareFailCall(c, j, retry) ==
    Call(c, "fail", [NoArg EXCEPT !.job = j, !.retry = retry], "scan",
         processing, PROCESSING_KEY)

\* complete and fail: LRANGE and the scan for jobId; not found returns
\* false.
BareScan(c) ==
    /\ op[c] \in {"complete", "fail"}
    /\ At(c, op[c], "scan")
    /\ IF FindJob(processing, arg[c].job) = NoJob
       THEN /\ pc' = [pc EXCEPT ![c] = "idle"]
            /\ Finish(c, IF op[c] = "complete"
                         THEN CompleteRet(FALSE, arg[c].job)
                         ELSE FailRet(FALSE, arg[c].job))
       ELSE /\ found' = [found EXCEPT ![c] = FindJob(processing, arg[c].job)]
            /\ pc' = [pc EXCEPT ![c] = "exec"]
            /\ UNCHANGED <<op, arg, idx, jobs, todo, ret>>
    /\ UNCHANGED <<store, att, pre, requeues, env>>

\* complete: multi.exec() of LREM, SET and HSET; the HSET is refused on a
\* key that holds a string, and exec rejects.
BareCompleteExec(c) ==
    /\ At(c, "complete", "exec")
    /\ processing' = LRem(processing, found[c])
    /\ result' = [result EXCEPT ![arg[c].job] =
                      [status |-> "completed", data |-> "result"]]
    /\ \E d \in HSetDoc(doc[arg[c].job], "indexed") :
          /\ doc' = [doc EXCEPT ![arg[c].job] = d]
          /\ Finish(c, CompleteRet(d # "string", arg[c].job))
    /\ pc' = [pc EXCEPT ![c] = "idle"]
    /\ UNCHANGED <<lock, pending, failed, nextJob, att, pre, requeues, env>>

\* fail: multi.exec() of LREM and either RPUSH onto the pending list or
\* LPUSH onto the failed list, SET and HSET.
BareFailExec(c) ==
    /\ At(c, "fail", "exec")
    /\ processing' = LRem(processing, found[c])
    /\ IF arg[c].retry /\ found[c].attempts < MAX_ATTEMPTS
       THEN /\ pending' = RPush(pending, found[c])
            /\ Finish(c, FailRet(TRUE, arg[c].job))
            /\ UNCHANGED <<failed, result, doc>>
       ELSE /\ pending' = pending
            /\ failed' = LPush(failed, found[c])
            /\ result' = [result EXCEPT ![arg[c].job] =
                              [status |-> "failed", data |-> "error"]]
            /\ \E d \in HSetDoc(doc[arg[c].job], "failed") :
                  /\ doc' = [doc EXCEPT ![arg[c].job] = d]
                  /\ Finish(c, FailRet(d # "string", arg[c].job))
    /\ pc' = [pc EXCEPT ![c] = "idle"]
    /\ UNCHANGED <<lock, nextJob, att, pre, requeues, env>>

\* ------------------------------------------- worker/indexer.ts: workerLoop
MAX_CONCURRENT_JOBS == 2

\* while (isRunning): queue.getStats(), whose result is only logged.
LoopStats(w) ==
    /\ Runs(w)
    /\ wpc[w] = "poll"
    /\ isRunning[w]
    /\ wpc' = [wpc EXCEPT ![w] = "capacity"]
    /\ UNCHANGED <<store, local, requeues, expiries, expired, build, watch,
                   indexer, calls, tjob, tpc, isRunning, dpc>>

\* while (activeJobs < MAX_CONCURRENT_JOBS): jobs = await queue.dequeue(...)
\* The queue operations called in one behaviour are counted.
LoopDequeue(w) ==
    /\ Runs(w)
    /\ wpc[w] = "capacity"
    /\ activeJobs < MAX_CONCURRENT_JOBS
    /\ calls < MaxCalls
    /\ calls' = calls + 1
    /\ DequeueCall(w)
    /\ wpc' = [wpc EXCEPT ![w] = "dequeue"]
    /\ UNCHANGED <<isRunning, dpc, tjob, tpc>>

\* No capacity: the loop sleeps for POLLING_INTERVAL and starts again.
LoopSleep(w) ==
    /\ Runs(w)
    /\ wpc[w] = "capacity"
    /\ ~(activeJobs < MAX_CONCURRENT_JOBS)
    /\ wpc' = [wpc EXCEPT ![w] = "poll"]
    /\ UNCHANGED <<store, local, requeues, expiries, expired, build, watch,
                   indexer, calls, tjob, tpc, isRunning, dpc>>

\* The processDocument contexts that are not in use, in order.
FreeTasks == SelectSeq(TaskSeq, LAMBDA t : dpc[t] = "free")

Position(ts, t) == CHOOSE i \in 1..Len(ts) : ts[i] = t

\* dequeue has returned: an empty batch breaks out of the inner loop and
\* the loop sleeps; else for (const job of jobs) { activeJobs++;
\* processDocument(job) } and the inner loop condition is evaluated again.
LoopGot(w) ==
    /\ Runs(w)
    /\ wpc[w] = "dequeue"
    /\ op[w] = "idle"
    /\ Len(ret[w].jobs) <= Len(FreeTasks)
    /\ LET got == ret[w].jobs
           free == SubSeq(FreeTasks, 1, Len(got))
           starts(t) == \E i \in 1..Len(free) : free[i] = t
       IN  IF got = <<>>
           THEN /\ wpc' = [wpc EXCEPT ![w] = "poll"]
                /\ UNCHANGED <<tjob, dpc, activeJobs>>
           ELSE /\ wpc' = [wpc EXCEPT ![w] = "capacity"]
                /\ activeJobs' = activeJobs + Len(got)
                /\ tjob' = [t \in Tasks |->
                               IF starts(t) THEN got[Position(free, t)]
                               ELSE tjob[t]]
                /\ dpc' = [t \in Tasks |->
                              IF starts(t) THEN "get" ELSE dpc[t]]
    /\ UNCHANGED <<store, local, requeues, expiries, expired, build, watch,
                   text, chunkSize, chunks, tracker, splitter, written,
                   counter, calls, tpc, isRunning>>

\* ------------------------------------------------------ specification
\* The pending list after n enqueue calls that ran one after the other.
RECURSIVE Enqueued(_)
Enqueued(n) ==
    IF n = 0 THEN <<>>
    ELSE LPush(Enqueued(n - 1),
               [jobId |-> n, attempts |-> 0, workerId |-> "none"])

InitStore(n, d) ==
    /\ lock = [k \in AllKeys |-> NoToken]
    /\ pending = Enqueued(n)
    /\ processing = <<>>
    /\ failed = <<>>
    /\ result = [j \in JobIds |-> NoResult]
    /\ doc = d
    /\ nextJob = n + 1

InitLocal ==
    /\ op = [c \in Ctxs |-> "idle"]
    /\ pc = [c \in Ctxs |-> "idle"]
    /\ arg = [c \in Ctxs |-> NoArg]
    /\ att = [c \in Ctxs |-> 0]
    /\ idx = [c \in Ctxs |-> 0]
    /\ jobs = [c \in Ctxs |-> <<>>]
    /\ found = [c \in Ctxs |-> NoJob]
    /\ todo = [c \in Ctxs |-> {}]
    /\ ret = [c \in Ctxs |-> NoRet]
    /\ pre = [c \in Ctxs |-> NoPre]
    /\ requeues = [j \in JobIds |-> 0]
    /\ expiries = 0
    /\ expired = {}
    /\ build = AnyBuild
    /\ calls = 0

\* The workers in ws have been started; no batch is being processed.
InitPool(ws) ==
    /\ wpc = [w \in Procs |-> IF w \in ws THEN "poll" ELSE "stopped"]
    /\ tjob = [t \in Tasks |-> NoJob]
    /\ tpc = [t \in Tasks |-> "free"]
    /\ isRunning = [w \in Procs |-> w \in ws]
    /\ dpc = [t \in Tasks |-> "free"]

\* Nothing is known yet of what the document keys hold.
NoDocs == [j \in JobIds |-> "unknown"]

\* The concurrent specification: the workers start on a queue that holds up
\* to MaxJobs jobs; the contexts call up to MaxCalls operations, any of them
\* at any time.
Init ==
    /\ \E n \in 0..MaxJobs : InitStore(n, NoDocs)
    /\ InitLocal
    /\ InitIndexer
    /\ InitPool({})
    /\ watch = FALSE

Budgeted(call) ==
    /\ calls < MaxCalls
    /\ call
    /\ calls' = calls + 1
    /\ UNCHANGED pool

CallAny(c) ==
    \/ EnqueueCall(c)
    \/ DequeueCall(c)
    \/ \E j \in Ids(processing) : CompleteCall(c, j)
    \/ \E j \in Ids(processing), retry \in BOOLEAN : FailCall(c, j, retry)

Enqueue(c) ==
    \/ EnqueueAcquire(c)
    \/ EnqueuePush(c)
    \/ EnqueueReleaseGet(c)
    \/ EnqueueReleaseDel(c)

Dequeue(c) ==
    \/ DequeueAcquire(c)
    \/ DequeueInnerAcquire(c)
    \/ DequeueLRange(c)
    \/ DequeueRPop(c)
    \/ DequeueLPush(c)
    \/ DequeueInnerReleaseGet(c)
    \/ DequeueInnerReleaseDel(c)
    \/ DequeueWithHash(c)
    \/ DequeueReleaseGet(c)
    \/ DequeueReleaseDel(c)

Complete(c) ==
    \/ CompleteAcquire(c)
    \/ CompleteInnerAcquire(c)
    \/ CompleteLRange(c)
    \/ CompleteLRem(c)
    \/ CompleteInnerReleaseGet(c)
    \/ CompleteInnerReleaseDel(c)
    \/ CompleteWrite(c)
    \/ CompleteSet(c)
    \/ CompleteReleaseGet(c)
    \/ CompleteReleaseDel(c)

Fail(c) ==
    \/ FailAcquire(c)
    \/ FailInnerAcquire(c)
    \/ FailLRange(c)
    \/ FailLRem(c)
    \/ FailInnerReleaseGet(c)
    \/ FailInnerReleaseDel(c)
    \/ FailRPush(c)
    \/ FailLPush(c)
    \/ FailSet(c)
    \/ FailReleaseGet(c)
    \/ FailReleaseDel(c)

\* One step of the operation a context is in.
Step(c) == Enqueue(c) \/ Dequeue(c) \/ Complete(c) \/ Fail(c)

Next ==
    \/ \E c \in Procs : Budgeted(CallAny(c))
    \/ \E c \in Procs : Step(c)
    \/ \E k \in LockKeys : ExpireCounted(k)

Spec == Init /\ [][Next]_vars

\* No operation is executing.
Quiescent == \A c \in Ctxs : op[c] = "idle"

\* The sequential specification: the queue starts empty and one context
\* calls one operation after the other, with any argument, while lock
\* entries may expire at any moment.  What each call saw and returned is
\* recorded.
SeqProcs == {"w1"}

InitSeq ==
    /\ InitStore(0, NoDocs)
    /\ InitLocal
    /\ InitIndexer
    /\ InitPool({})
    /\ watch = TRUE

SeqCall(c) ==
    /\ Quiescent
    /\ \/ EnqueueCall(c)
       \/ DequeueCall(c)
       \/ \E j \in 1..(nextJob - 1) : CompleteCall(c, j)
       \/ \E j \in 1..(nextJob - 1), retry \in BOOLEAN : FailCall(c, j, retry)
    /\ UNCHANGED <<calls, pool>>

NextSeq ==
    \/ \E c \in SeqProcs : SeqCall(c)
    \/ \E c \in SeqProcs : Step(c)
    \/ \E k \in LockKeys : ExpireAny(k)

SpecSeq == InitSeq /\ [][NextSeq]_vars

\* The lock specification: the contexts call withLock on any key at any
\* time, and lock entries may expire at any moment.
WithLock(c) ==
    \/ WithLockAcquire(c)
    \/ WithLockBody(c)
    \/ WithLockReleaseGet(c)
    \/ WithLockReleaseDel(c)

LockCall(c) ==
    /\ \E k \in LockKeys : WithLockCall(c, k)
    /\ UNCHANGED <<calls, pool>>

NextLock ==
    \/ \E c \in Procs : LockCall(c)
    \/ \E c \in Procs : WithLock(c)
    \/ \E k \in LockKeys : ExpireAny(k)

SpecLock == InitSeq /\ [][NextLock]_vars

\* The worker specification: one started WorkerPoolManager on a queue that
\* holds 1 to MaxJobs jobs, whose documents hold any of the things a
\* document key can hold; lock entries may expire at any moment.
InitWorker ==
    /\ \E n \in 1..MaxJobs : \E d \in [1..n -> Stored] :
          InitStore(n, [j \in JobIds |-> IF j <= n THEN d[j] ELSE "unknown"])
    /\ InitLocal
    /\ InitIndexer
    /\ InitPool(Workers)
    /\ watch = TRUE

Worker(w) == WorkerPoll(w) \/ WorkerGot(w) \/ WorkerJoin(w)

Task(t) == TaskGet(t) \/ TaskComplete(t) \/ TaskFail(t) \/ TaskDone(t)

\* The queue operations a worker calls; its fail never has retry set, so
\* the rpush branch of fail is not among the steps.
WorkerFail(c) ==
    \/ FailAcquire(c)
    \/ FailInnerAcquire(c)
    \/ FailLRange(c)
    \/ FailLRem(c)
    \/ FailInnerReleaseGet(c)
    \/ FailInnerReleaseDel(c)
    \/ FailLPush(c)
    \/ FailSet(c)
    \/ FailReleaseGet(c)
    \/ FailReleaseDel(c)

WorkerStep(c) == Dequeue(c) \/ Complete(c) \/ WorkerFail(c)

NextWorker ==
    \/ \E w \in Workers : Worker(w)
    \/ \E t \in Tasks : Task(t)
    \/ \E c \in Workers \cup Tasks : WorkerStep(c)
    \/ \E k \in LockKeys : ExpireAny(k)

SpecWorker == InitWorker /\ [][NextWorker]_vars

\* The event loop runs every continuation that is ready, and the store
\* drops a lock entry that stays there.
FairWorker ==
    /\ \A w \in Workers : WF_vars(Worker(w))
    /\ \A t \in Tasks : WF_vars(Task(t))
    /\ \A c \in Workers \cup Tasks : WF_vars(WorkerStep(c))
    /\ \A k \in LockKeys : WF_vars(ExpireAny(k))

SpecWorkerFair == SpecWorker /\ FairWorker

\* The acquisition specification: the contexts call acquireLock on any key
\* at any time; no lock is released and none expires.
AcquireAny(c) ==
    /\ \E k \in LockKeys : AcquireCall(c, k)
    /\ UNCHANGED <<calls, pool>>

NextAcquire ==
    \/ \E c \in Procs : AcquireAny(c)
    \/ \E c \in Procs : AcquireLock(c)

SpecAcquire == InitSeq /\ [][NextAcquire]_vars

\* The multi-key specification: the contexts call withMultipleKeys with
\* any list of distinct keys, in any order, at any time; lock entries may
\* expire at any moment.
KeyLists ==
    {ks \in UNION {[1..n -> ListKeys] : n \in 0..Len(ListOrder)} :
        \A i, j \in DOMAIN ks : i # j => ks[i] # ks[j]}

MultiAny(c) ==
    /\ \E ks \in KeyLists : MultiCall(c, "withMultipleKeys", NoArg, ks, <<>>)
    /\ UNCHANGED <<calls, pool>>

Multi(c) ==
    \/ MultiAcquire(c)
    \/ MultiOperation(c)
    \/ MultiReleaseGet(c)
    \/ MultiReleaseDel(c)

NextMulti ==
    \/ \E c \in Procs : MultiAny(c)
    \/ \E c \in Procs : Multi(c)
    \/ \E k \in ListKeys : ExpireAny(k)

SpecMulti == InitSeq /\ [][NextMulti]_vars

\* The event loop runs every continuation that is ready.
InitQuiet ==
    /\ InitStore(0, NoDocs)
    /\ InitLocal
    /\ InitIndexer
    /\ InitPool({})
    /\ watch = FALSE

SpecMultiFair ==
    /\ InitQuiet
    /\ [][NextMulti]_vars
    /\ \A c \in Procs : WF_vars(Multi(c))

\* The contention specification: w1 enqueues while w2 dequeues, each any
\* number of times; lock entries may expire at any moment.
ContendCall(c) ==
    /\ IF c = "w1" THEN EnqueueCall(c) ELSE DequeueCall(c)
    /\ UNCHANGED <<calls, pool>>

\* ... or asks for the statistics or for the status of a job.
ReadCall(c) ==
    /\ c = "w1"
    /\ GetStatsCall(c) \/ \E j \in JobIds : GetJobStatusCall(c, j)
    /\ UNCHANGED <<calls, pool>>

GetStats(c) ==
    \/ MultiAcquire(c)
    \/ GetStatsLLen(c)
    \/ MultiReleaseGet(c)
    \/ MultiReleaseDel(c)

GetJobStatus(c) ==
    \/ GetJobStatusGet(c)
    \/ GetJobStatusProcessing(c)
    \/ GetJobStatusQueue(c)
    \/ GetJobStatusFailed(c)

NextContend ==
    \/ \E c \in Procs : ContendCall(c)
    \/ \E c \in Procs : ReadCall(c)
    \/ \E c \in Procs : Enqueue(c)
    \/ \E c \in Procs : Dequeue(c)
    \/ \E c \in Procs : GetStats(c)
    \/ \E c \in Procs : GetJobStatus(c)
    \/ \E k \in LockKeys : ExpireAny(k)

SpecContend == InitSeq /\ [][NextContend]_vars

\* The recovery specification: two workers poll the queue with dequeue; w1
\* may crash at any moment, after which none of its continuations runs; lock
\* entries expire when their ttl runs out.
InitRecover ==
    /\ \E n \in 1..MaxJobs : InitStore(n, NoDocs)
    /\ InitLocal
    /\ InitIndexer
    /\ InitPool({})
    /\ watch = FALSE

RecoverCall(c) ==
    /\ Runs(c)
    /\ DequeueCall(c)
    /\ UNCHANGED <<calls, pool>>

\* The worker's process is killed.
Crash(c) ==
    /\ c = "w1"
    /\ wpc[c] # "crashed"
    /\ wpc' = [wpc EXCEPT ![c] = "crashed"]
    /\ UNCHANGED <<store, local, requeues, expiries, expired, build, watch,
                   indexer, calls, tjob, tpc, isRunning, dpc>>

NextRecover ==
    \/ \E c \in Procs : RecoverCall(c)
    \/ \E c \in Procs : Dequeue(c)
    \/ \E c \in Procs : Crash(c)
    \/ \E k \in LockKeys : ExpireAny(k)

\* A running worker polls for ever and its continuations run; a lock entry
\* that stays is dropped by the store.
SpecRecover ==
    /\ InitRecover
    /\ [][NextRecover]_vars
    /\ \A c \in Procs : WF_vars(RecoverCall(c)) /\ WF_vars(Dequeue(c))
    /\ \A k \in LockKeys : WF_vars(ExpireAny(k))

\* ------------------------------------------------------------- claims
Owners(j) ==
    {processing[i].workerId : i \in {k \in 1..Len(processing) :
                                        processing[k].jobId = j}}

\* C1: at every instant a job is owned by at most one worker: the entries of
\* one job in the processing list never carry two different workerIds.
C1_OneOwnerPerJob == \A j \in JobIds : Cardinality(Owners(j)) <= 1

Places(j) ==
    {p \in {"pending", "processing", "completed", "failed"} :
        \/ p = "pending" /\ j \in Ids(pending)
        \/ p = "processing" /\ j \in Ids(processing)
        \/ p = "completed" /\ result[j].status = "completed"
        \/ p = "failed" /\ j \in Ids(failed)}

\* C2: exclusivity: in every reachable state each jobId is in at most one of
\* the pending list, the processing list, a completed result record and the
\* failed list.
C2_Exclusivity == \A j \in JobIds : Cardinality(Places(j)) <= 1

Present(j) ==
    \/ j \in Ids(pending)
    \/ j \in Ids(processing)
    \/ result[j].status # "none"

\* C3: no job is silently dropped: whenever no operation is executing, every
\* enqueued job is in the pending list, the processing list or the result
\* store.
C3_NoJobDropped == Quiescent => \A j \in 1..(nextJob - 1) : Present(j)

\* C5: once a job has a completed or failed record it is in neither the
\* pending nor the processing list any more.
C5_TerminalIsFinal ==
    \A j \in JobIds :
        result[j].status \in {"completed", "failed"}
            => j \notin (Ids(pending) \cup Ids(processing))

Range(list) == {list[i] : i \in 1..Len(list)}

\* What dequeue makes of a pending entry: attempts + 1, workerId = caller.
Taken(e, c) ==
    [jobId |-> e.jobId, attempts |-> e.attempts + 1, workerId |-> c]

\* C4: bounded retry: in any sequence of calls a job is pushed back onto
\* the pending list at most twice, and once a fail(jobId, err, retry=true)
\* call made for a processing job with attempts = 3 (processing lock free)
\* has returned, the job is not pending but in the failed list, with a
\* result record of status failed.
C4_BoundedRetry ==
    /\ \A j \in JobIds : requeues[j] <= 2
    /\ \A c \in Procs :
          LET j == ret[c].job
          IN  ( /\ ret[c].op = "fail"
                /\ pre[c].arg.retry
                /\ pre[c].free
                /\ FindJob(pre[c].list, j).attempts = 3 )
              => /\ j \notin Ids(pending)
                 /\ j \in Ids(failed)
                 /\ result[j].status = "failed"

\* C7: a dequeue called on a pending list of n jobs with the pending lock
\* free returns min(n, 5) jobs: the tail entries in tail-first order, each
\* with attempts + 1 and the caller's workerId; exactly these have left the
\* pending list and are in the processing list.
C7_DequeueBatch ==
    \A c \in Procs :
        LET l == pre[c].list
            n == Len(l)
            m == Min(n, MAX_JOBS_PER_WORKER)
        IN  (ret[c].op = "dequeue" /\ pre[c].free)
            => /\ ret[c].jobs = [i \in 1..m |-> Taken(l[n + 1 - i], c)]
               /\ pending = SubSeq(l, 1, n - m)
               /\ Range(ret[c].jobs) \subseteq Range(processing)

\* C8: a complete(jobId, result) called for a job in the processing list
\* with the processing lock free returns true; afterwards the job is not in
\* the processing list and its result record has status completed and
\* carries the result that was passed in.
C8_CompleteSucceeds ==
    \A c \in Procs :
        LET j == ret[c].job
        IN  ( /\ ret[c].op = "complete"
              /\ pre[c].free
              /\ j \in Ids(pre[c].list) )
            => /\ ret[c].ok
               /\ j \notin Ids(processing)
               /\ result[j] = [status |-> "completed", data |-> "supplied"]

\* The contexts whose withLock(k, fn) is executing fn.
InBody(k) == {c \in Procs : At(c, "withLock", "body") /\ arg[c].key = k}

\* C6 as stated: for every key, at no time are the bodies of two withLock
\* calls on that key executing.
C6_MutualExclusion == \A k \in LockKeys : Cardinality(InBody(k)) <= 1

\* C6, amended: for every key no lock entry of which has expired before it
\* was released, at no time are the bodies of two withLock calls on that key
\* executing.
C6_MutualExclusionUnlessExpired ==
    \A k \in LockKeys \ expired : Cardinality(InBody(k)) <= 1

\* Two calls contend for a key that never expired: one executes its body,
\* the other has been refused the lock and is retrying.
C6_Contended ==
    \E k \in LockKeys \ expired : \E c, d \in Procs :
        /\ c \in InBody(k)
        /\ At(d, "withLock", "acq") /\ arg[d].key = k /\ att[d] > 0

\* C9: with a started worker and a stored document with content, every
\* enqueued job is eventually in the processing list and eventually has a
\* completed result record.
C9_EventuallyCompleted ==
    \A j \in JobIds :
        /\ (j \in Ids(pending) /\ doc[j] = "text") ~> (j \in Ids(processing))
        /\ (j \in Ids(pending) /\ doc[j] = "text")
               ~> (result[j].status = "completed")

\* C10: a worker whose processJob threw calls fail with retry = true, so
\* that no job is in the failed list with fewer than 3 attempts.
C10_ThrowIsRetried ==
    /\ \A t \in Tasks : op[t] = "fail" => arg[t].retry
    /\ \A e \in Range(failed) : e.attempts >= MAX_ATTEMPTS

\* C11: releaseLock removes lock:<key> only when it holds the caller's token
\* at the moment of the deletion: the DEL of a withLock call never removes
\* an entry written under another token, and a release that read another
\* token returns and leaves the entry as it is.
C11_ReleaseOnlyOwn ==
    [][\A c \in Procs :
          /\ (At(c, "withLock", "reldel") /\ pc'[c] # "reldel")
                => \/ lock[arg[c].key] \in {NoToken, Token(c, "outer")}
                   \/ lock'[arg[c].key] = lock[arg[c].key]
          /\ ( /\ At(c, "withLock", "relget") /\ pc'[c] # "relget"
               /\ lock[arg[c].key] # Token(c, "outer") )
                => lock' = lock /\ pc'[c] = "idle"]_vars

\* Contexts c and d have both returned from acquireLock(k), each called
\* while lock:k was free.
BothAcquired(c, d, k) ==
    /\ c # d
    /\ ret[c].op = "acquireLock" /\ ret[d].op = "acquireLock"
    /\ pre[c].arg.key = k /\ pre[d].arg.key = k
    /\ pre[c].free /\ pre[d].free

\* C12: when nothing is released and nothing expires, of two acquireLock
\* calls made on the same free key exactly one gets a token, and the other
\* gets none after exactly maxRetries refused SET NX calls; no call ever
\* makes more than maxRetries of them.
C12_ExactlyOneWins ==
    /\ \A c \in Procs : att[c] < maxRetries
    /\ \A c \in Procs :
          ret[c].op = "acquireLock" => ret[c].val[1] <= maxRetries
    /\ \A k \in LockKeys : \A c, d \in Procs :
          (BothAcquired(c, d, k) /\ ret[c].ok)
              => ~ret[d].ok /\ ret[d].val = <<maxRetries>>
    /\ \A k \in LockKeys : \A c, d \in Procs :
          BothAcquired(c, d, k) => ret[c].ok \/ ret[d].ok

\* Both calls have returned: one with the token, one with none.
C12_OneWonOneLost ==
    \E k \in LockKeys : \E c, d \in Procs :
        /\ BothAcquired(c, d, k)
        /\ ret[c].ok /\ ret[c].val = <<1>>
        /\ ~ret[d].ok /\ ret[d].val = <<maxRetries>>

\* C13: once a withLock call has ended, with fn's value, with fn's
\* exception or with null, the lock entry that call wrote is not in the
\* store.
C13_AlwaysReleases ==
    \A c \in Procs :
        ret[c].op = "withLock"
            => \A k \in LockKeys : lock[k] # Token(c, "outer")

\* A withLock call whose fn threw has ended and its key is free again.
C13_ReleasedAfterThrow ==
    \E c \in Procs :
        /\ ret[c].op = "withLock" /\ ret[c].val = <<"threw">>
        /\ lock[pre[c].arg.key] = NoToken

\* C14: withMultipleKeys is free of deadlock: whatever key lists the callers
\* pass and in whatever order, every call eventually returns, and a caller
\* that has returned holds none of the locks the call took.
C14_DeadlockFree ==
    /\ [](\A c \in Procs :
            op[c] = "idle" => \A k \in ListKeys : lock[k] # Token(c, "multi"))
    /\ \A c \in Procs : (op[c] = "withMultipleKeys") ~> (op[c] = "idle")

\* Two calls with overlapping key lists: d holds a lock and waits for one
\* that c holds.
C14_HoldAndWait ==
    \E c, d \in Procs :
        /\ c # d
        /\ op[c] = "withMultipleKeys"
        /\ InMulti(d, "acq")
        /\ idx[d] > 0
        /\ att[d] > 0
        /\ lock[arg[d].keys[1]] = Token(d, "multi")
        /\ lock[arg[d].keys[idx[d] + 1]] = Token(c, "multi")

\* C15: withMultipleKeys is all-or-nothing: the operation runs only when
\* every lock was acquired (and, unless an entry expired, is held); when the
\* acquisition of a key fails the operation is not run, the locks acquired
\* before are released in reverse order of acquisition, and none (null) is
\* returned.
C15_AllOrNothing ==
    /\ [](\A c \in Procs :
            InMulti(c, "op") =>
                /\ idx[c] = Len(arg[c].keys)
                /\ expired = {} =>
                      \A i \in 1..Len(arg[c].keys) :
                          lock[arg[c].keys[i]] = Token(c, "multi"))
    /\ [][\A c \in Procs :
            /\ ( /\ InMulti(c, "acq")
                 /\ lock[arg[c].keys[idx[c] + 1]] # NoToken
                 /\ pc'[c] # "acq" )
                  => /\ pc'[c] = IF idx[c] = 0 THEN "idle" ELSE "relget"
                     /\ pc'[c] = "idle" => ret'[c].val = <<"null">>
            /\ ( /\ InMulti(c, "relget") \/ InMulti(c, "reldel")
                 /\ "ran" \notin todo[c]
                 /\ pc'[c] # pc[c] )
                  => /\ pc'[c] \in {"relget", "reldel", "idle"}
                     /\ pc'[c] = "idle" => ret'[c].val = <<"null">>
            /\ \A k \in ListKeys :
                  ( /\ InMulti(c, "reldel")
                    /\ pc'[c] # "reldel"
                    /\ lock[k] = Token(c, "multi")
                    /\ lock'[k] = NoToken )
                     => \A k2 \in ListKeys :
                           lock[k2] = Token(c, "multi") => Rank(k2) <= Rank(k)
       ]_vars

\* The third acquisition of a call failed; the call has released its second
\* lock and still holds its first.
C15_Releasing ==
    \E c \in Procs :
        /\ InMulti(c, "relget")
        /\ "ran" \notin todo[c]
        /\ Len(arg[c].keys) = 3
        /\ idx[c] = 1
        /\ expired = {}
        /\ lock[arg[c].keys[1]] = Token(c, "multi")
        /\ lock[arg[c].keys[2]] = NoToken
        /\ lock[arg[c].keys[3]] \notin {NoToken, Token(c, "multi")}

\* C16: enqueue succeeds whenever the store is reachable, also while other
\* operations hold or contend for the lock of the pending list: it returns
\* success = true with a fresh jobId, and the job, with attempts = 0, is on
\* the pending list when it returns.
C16_EnqueueSucceeds ==
    [][\A c \in Procs :
          (op[c] = "enqueue" /\ op'[c] = "idle")
              => /\ ret'[c].ok
                 /\ ret'[c].job = nextJob - 1
                 /\ \E i \in 1..Len(pending) :
                       /\ pending[i].jobId = ret'[c].job
                       /\ pending[i].attempts = 0]_vars

\* C17: complete(jobId) or fail(jobId) called for a jobId that is not in the
\* processing list changes neither the pending, the processing or the failed
\* list nor the result store, and returns false.
C17_NotFoundIsNoOp ==
    [][\A c \in SeqProcs :
          ( /\ op[c] \in {"complete", "fail"}
            /\ arg[c].job \notin Ids(pre[c].list) )
              => /\ UNCHANGED <<pending, processing, failed, result>>
                 /\ op'[c] = "idle" =>
                       /\ ret'[c].op = op[c]
                       /\ ~ret'[c].ok]_vars

\* fail has returned false for a job that is pending while another job is
\* in the processing list.
C17_OtherJobProcessing ==
    \E c \in SeqProcs :
        /\ ret[c].op = "fail"
        /\ ~ret[c].ok
        /\ op[c] = "idle"
        /\ pre[c].arg.job \in Ids(pending)
        /\ pre[c].list # <<>>
        /\ pre[c].list = processing

\* The status getJobStatus is to return for job j: that of the first place
\* holding it, looked up in the order result store, processing list,
\* pending list, failed list; "none" when it is in none of them.
StatusOf(j) ==
    IF result[j] # NoResult THEN result[j].status
    ELSE IF j \in Ids(processing) THEN "processing"
    ELSE IF j \in Ids(pending) THEN "queued"
    ELSE IF j \in Ids(failed) THEN "failed"
    ELSE "none"

\* C18: getJobStatus(jobId) returns the status of the first place holding
\* the job (result store, processing, pending, failed), and none only when
\* the job is in none of the four, whatever else runs at the same time; in
\* particular when the three lists are at its return what they were at the
\* call.
C18_FirstLocation ==
    [][\A c \in Procs :
          ( /\ op[c] = "getJobStatus"
            /\ op'[c] = "idle"
            /\ pre[c].list = <<pending, processing, failed>> )
              => ret'[c].val = <<StatusOf(arg[c].job)>>]_vars

\* C19: getStats returns the lengths the pending, processing and failed
\* lists had at one instant of the call, whatever else runs at the same
\* time; in particular, when the three lists are at its return what they
\* were at the call, it returns their lengths.
C19_ConsistentSnapshot ==
    [][\A c \in Procs :
          ( /\ op[c] = "getStats"
            /\ op'[c] = "idle"
            /\ pre[c].list = <<pending, processing, failed>> )
              => ret'[c].val = <<Len(pending), Len(processing), Len(failed)>>
      ]_vars

\* C20: a job that fail(retry = true) puts back is served before the jobs
\* that were pending then, not after them: the push adds it at the end of
\* the pending list that dequeue takes from, so that in the pending list
\* every entry that was dequeued before lies nearer that end than every
\* entry that never was, and a batch returned by dequeue has the retried
\* jobs first.
C20_RetriedServedFirst ==
    /\ [](\A i, k \in 1..Len(pending) :
            (pending[i].attempts = 0 /\ pending[k].attempts > 0) => i < k)
    /\ [](\A c \in SeqProcs :
            ret[c].op = "dequeue" =>
                \A i, k \in 1..Len(ret[c].jobs) :
                    ( /\ ret[c].jobs[i].attempts > 1
                      /\ ret[c].jobs[k].attempts = 1 ) => i < k)
    /\ [][\A c \in SeqProcs :
            (op[c] = "fail" /\ pending' # pending)
                => /\ Len(pending') = Len(pending) + 1
                   /\ SubSeq(pending', 1, Len(pending)) = pending
                   /\ pending'[Len(pending')].jobId = arg[c].job]_vars

\* dequeue has returned a batch of a retried job followed by a job that was
\* never dequeued before.
C20_RetriedThenFresh ==
    \E c \in SeqProcs :
        /\ ret[c].op = "dequeue"
        /\ Len(ret[c].jobs) = 2
        /\ ret[c].jobs[1].attempts = 2
        /\ ret[c].jobs[2].attempts = 1
        /\ requeues[ret[c].jobs[1].jobId] = 1

\* C20 as stated: the job that fail(retry = true) puts back goes behind every
\* job that is pending then: dequeue, which takes the last entry of the
\* list, gets to it only after them.
C20_RetriedServedLast ==
    [][\A c \in SeqProcs :
          (op[c] = "fail" /\ pending' # pending)
              => /\ Len(pending') = Len(pending) + 1
                 /\ Tail(pending') = pending
                 /\ Head(pending').jobId = arg[c].job]_vars

\* C24: a withLock call on a key is never held up by the holders or waiters
\* of another key: when its key is free, its first attempt takes the lock
\* and its body runs next, whatever the other lock entries hold.
C24_OtherKeyDoesNotBlock ==
    [][\A c \in Procs :
          ( /\ At(c, "withLock", "acq")
            /\ att[c] = 0
            /\ lock[arg[c].key] = NoToken
            /\ <<pc[c], att[c]>>' # <<pc[c], att[c]>> )
              => /\ pc'[c] = "body"
                 /\ op'[c] = "withLock"
                 /\ lock'[arg[c].key] = Token(c, "outer")]_vars

\* c runs its body under the lock of one key while d holds the lock of the
\* other key; no entry has expired.
C24_BothKeysHeld ==
    \E c, d \in Procs :
        /\ c # d
        /\ At(c, "withLock", "body")
        /\ op[d] = "withLock"
        /\ arg[c].key # arg[d].key
        /\ lock[arg[c].key] = Token(c, "outer")
        /\ lock[arg[d].key] = Token(d, "outer")
        /\ expired = {}

\* C25: dequeue called while the pending list is empty changes neither the
\* pending nor the processing list and returns an empty batch, which is not
\* an error.
C25_EmptyDequeue ==
    [][\A c \in SeqProcs :
          (op[c] = "dequeue" /\ pre[c].list = <<>>)
              => /\ UNCHANGED <<pending, processing>>
                 /\ op'[c] = "idle" =>
                       /\ ret'[c].op = "dequeue"
                       /\ ret'[c].ok
                       /\ ret'[c].jobs = <<>>]_vars

\* dequeue has returned an empty batch from an empty pending list while a
\* job is in the processing list.
C25_EmptyWithProcessing ==
    \E c \in SeqProcs :
        /\ op[c] = "idle"
        /\ ret[c].op = "dequeue"
        /\ ret[c].jobs = <<>>
        /\ pre[c].list = <<>>
        /\ pending = <<>>
        /\ processing # <<>>

\* The key of the withLock call that encloses the store calls of a queue
\* operation.
OuterKey(name) ==
    IF name \in {"enqueue", "dequeue"} THEN QUEUE_KEY ELSE PROCESSING_KEY

\* The keys whose withLock callback context c is executing.
Section(c) ==
    IF /\ op[c] \in {"enqueue", "dequeue", "complete", "fail"}
       /\ pc[c] \notin {"idle", "acq", "relget", "reldel"}
    THEN {OuterKey(op[c])}
    ELSE {}

\* C27: every mutation of a shared list is made inside the critical section
\* keyed by that list: a step of an operation that changes the pending, the
\* processing or the failed list is a step of the callback of a withLock on
\* that list's key.
C27_MutationUnderOwnLock ==
    [][\A c \in SeqProcs :
          op[c] # "idle" =>
              /\ pending' # pending => QUEUE_KEY \in Section(c)
              /\ processing' # processing => PROCESSING_KEY \in Section(c)
              /\ failed' # failed => FAILED_QUEUE \in Section(c)]_vars

\* The locks context c has acquired and not yet released,
Held(c) ==
    IF op[c] \in MultiOps
    THEN IF pc[c] = "acq" THEN {arg[c].keys[i] : i \in 1..idx[c]} ELSE {}
    ELSE Section(c)

\* ... and the lock it is asking for: the next of the sorted keys in
\* withMultipleKeys, the list's key in withList.
Requested(c) ==
    IF op[c] \in MultiOps
    THEN IF pc[c] = "acq" THEN {arg[c].keys[idx[c] + 1]} ELSE {}
    ELSE IF pc[c] = "in_acq" THEN {OuterKey(op[c])} ELSE {}

\* C28: a queue operation that asks for a lock while it holds others asks
\* for a key that sorts after every key it holds; in particular it never
\* asks for a lock it holds.
C28_LockOrder ==
    \A c \in Procs :
        \A r \in Requested(c), h \in Held(c) : Rank(h) < Rank(r)

\* C21: a job dequeued by a worker that then crashes, before it calls
\* complete or fail, is eventually dequeued again by a running worker.
C21_Recovered ==
    \A j \in JobIds :
        ( /\ wpc["w1"] = "crashed"
          /\ \E i \in 1..Len(processing) :
                processing[i].jobId = j /\ processing[i].workerId = "w1" )
        ~> (\E i \in 1..Len(processing) :
                processing[i].jobId = j /\ processing[i].workerId = "w2")

\* ------------------------------------------------------------ stop()
\* The worker of SpecWorker, and stop() called on it at any moment.
NextStop ==
    \/ \E w \in Workers : Worker(w)
    \/ \E w \in Workers : Stop(w)
    \/ \E w \in Workers : WorkerExit(w)
    \/ \E t \in Tasks : Task(t)
    \/ \E c \in Workers \cup Tasks : WorkerStep(c)
    \/ \E k \in LockKeys : ExpireAny(k)

\* stop() is called when its caller chooses: no fairness on it.
SpecStop ==
    /\ InitWorker
    /\ [][NextStop]_vars
    /\ FairWorker
    /\ \A w \in Workers : WF_vars(WorkerExit(w))

\* C29: once stop() has set isRunning to false the loop starts no dequeue
\* (the one in progress goes on), the loop eventually exits, and every job
\* already handed to processJob still reaches its complete or fail call.
C29_StopDrains ==
    /\ [][\A w \in Workers :
             ~isRunning[w] => ~(wpc[w] = "poll" /\ wpc'[w] = "dequeue")]_vars
    /\ \A w \in Workers : (~isRunning[w]) ~> (wpc[w] = "stopped")
    /\ \A t \in Tasks : (tpc[t] = "get") ~> (tpc[t] = "call")

\* ------------------------------------------------------ createChunks
MaxText == 4
MaxChunkSize == 3

\* n characters without whitespace.
Pad(n) == [k \in 1..n |-> "a"]

\* The arguments createChunks is called with: every short text with every
\* small chunk size; the short texts with up to ParagraphWindow characters
\* before and after them, with chunk sizes just above the two windows; and
\* a text of 5 * CHUNK_SIZE characters with the worker's CHUNK_SIZE.
ShortTexts == UNION {[1..n -> Chars] : n \in 0..MaxText}
Pads == {0, SentenceWindow, ParagraphWindow}
LongTexts == {Pad(p) \o t \o Pad(q) : p \in Pads, q \in Pads, t \in ShortTexts}
Inputs ==
    (ShortTexts \X (1..MaxChunkSize))
    \cup (LongTexts \X {SentenceWindow + 2, ParagraphWindow + 2})
    \cup {<<Pad(5 * CHUNK_SIZE), CHUNK_SIZE>>}

InitChunks ==
    /\ InitStore(0, NoDocs)
    /\ InitLocal
    /\ InitPool({})
    /\ watch = FALSE
    /\ \E in \in Inputs : text = in[1] /\ chunkSize = in[2]
    /\ chunks = NoChunks
    /\ InitTracker
    /\ InitAside

NextChunks == CreateChunks

SpecChunks == InitChunks /\ [][NextChunks]_vars

\* t is the chunks cs, in order, with whitespace before, between and after
\* them and nothing else.
RECURSIVE Rejoins(_, _)
Rejoins(t, cs) ==
    IF cs = <<>> THEN TrimStart(t) = <<>>
    ELSE LET u == TrimStart(t)
             c == Head(cs)
         IN  /\ Len(c) <= Len(u)
             /\ SubSeq(u, 1, Len(c)) = c
             /\ Rejoins(SubSeq(u, Len(c) + 1, Len(u)), Tail(cs))

Plain(t) == \A k \in 1..Len(t) : t[k] \notin Whitespace

Delivered(ts) ==
    [i \in 1..Len(ts) |->
        [jobId |-> 1, attempts |-> 1, workerId |-> IF i = 1 THEN "w1" ELSE "w2"]]

\* The numbers of chunks the job's document is split into: up to MaxBatches
\* batches, the last one full or of one chunk.
ChunkCounts ==
    {n \in 1..(MaxBatches * BATCH_SIZE) : n % BATCH_SIZE \in {0, 1}}

\* The job is being processed by one worker.  Its progress record was
\* initialised when it was enqueued, with the number of chunks of its
\* document ("counted") or with no totalChunks in the job's metadata
\* ("uncounted"), or it was not initialised ("none"); its document is there
\* with its content, or not.
Cases ==
    ({<<"t1">>} \X {"text"} \X ChunkCounts \X {"none", "uncounted", "counted"})
    \cup {<< <<"t1">>, "absent", 1, "none" >>}

\* The job was handed to two workers; it has its document and a counted
\* progress record.
Redelivered ==
    {<< <<"t1", "t2">>, "text", MaxBatches * BATCH_SIZE, "counted" >>}

InitCase(cases) ==
    /\ \E case \in cases :
          LET ts == case[1]
              started(t) == \E i \in 1..Len(ts) : ts[i] = t
          IN  /\ processing = Delivered(ts)
              /\ doc = [j \in JobIds |-> IF j = 1 THEN case[2] ELSE "unknown"]
              /\ tjob = [t \in Tasks |->
                            IF started(t) THEN [NoJob EXCEPT !.jobId = 1]
                            ELSE NoJob]
              /\ dpc = [t \in Tasks |-> IF started(t) THEN "get" ELSE "free"]
              /\ activeJobs = Len(ts)
              /\ nchunks = case[3]
              /\ progress = IF case[4] = "none" THEN NoProgress
                            ELSE IF case[4] = "uncounted" THEN Initialized(0)
                            ELSE Initialized(case[3])
    /\ lock = [k \in AllKeys |-> NoToken]
    /\ pending = <<>>
    /\ failed = <<>>
    /\ result = [j \in JobIds |-> NoResult]
    /\ nextJob = 2
    /\ wpc = [w \in Procs |-> "stopped"]
    /\ isRunning = [w \in Procs |-> FALSE]
    /\ tpc = [t \in Tasks |-> "free"]
    /\ InitLocal
    /\ text = <<>>
    /\ chunkSize = CHUNK_SIZE
    /\ chunks = NoChunks
    /\ batches = NoBatches
    /\ di = [t \in Tasks |-> 0]
    /\ derr = [t \in Tasks |-> FALSE]
    /\ dnew = [t \in Tasks |-> NoNew]
    /\ faults = 0
    /\ InitIdle

Document(t) ==
    \/ DocGet(t)
    \/ TrackBatch(t)
    \/ ProcessBatch(t)
    \/ CompleteBatchGet(t)
    \/ CompleteBatchSet(t)
    \/ IncrementGet(t)
    \/ UpdateGet(t)
    \/ UpdateSet(t)
    \/ DocSet(t)
    \/ DocComplete(t)
    \/ DocFail(t)
    \/ DocDone(t)

InitDocument == InitCase(Cases) /\ watch = FALSE

NextDocument ==
    \/ \E t \in Tasks : Document(t)
    \/ \E t \in Tasks : TrackerFault(t)
    \/ \E t \in Tasks : Complete(t)
    \/ \E t \in Tasks : WorkerFail(t)
    \/ \E k \in LockKeys : ExpireAny(k)

SpecDocument == InitDocument /\ [][NextDocument]_vars

\* The same with the job handed to two workers, and a store that fails no
\* call.
InitRedelivered == InitCase(Redelivered) /\ watch = FALSE

NextRedelivered ==
    \/ \E t \in Tasks : Document(t)
    \/ \E t \in Tasks : Complete(t)
    \/ \E k \in LockKeys : ExpireAny(k)

SpecRedelivered == InitRedelivered /\ [][NextRedelivered]_vars

\* Every batch of the job has a record with completed: true.
NumBatches == (nchunks + BATCH_SIZE - 1) \div BATCH_SIZE
AllCompleted ==
    \A b \in 0..(NumBatches - 1) :
        \E t \in Tasks : batches[t, b] \in {"completed", "failed"}

\* A step that stores a ProgressUpdate under progress:<jobId>.
Writes(t) == dpc[t] = "up_set" /\ dpc'[t] # "up_set"

\* C23: the progress values written for a job never decrease, and 100 is
\* written only when every batch of the job is recorded as completed.
C23_ProgressMonotone ==
    [][\A t \in Tasks :
          Writes(t) => /\ progress'.progress >= progress.progress
                       /\ progress'.progress = 100 => AllCompleted']_vars

\* C30: a batch that throws is recorded as completed with its error, the
\* loop goes on to track and complete every later batch, and processDocument
\* gets to its catch, where it fails the job, from no batch.
C30_BatchFailureIsolated ==
    [][\A t \in Tasks :
          /\ dpc[t] = "cb_set" /\ dpc'[t] # "cb_set" /\ derr[t]
                => batches'[t, di[t]] = "failed"
          /\ dpc[t] # "docset" /\ dpc'[t] = "docset"
                => \A b \in 0..(NumBatches - 1) :
                      batches'[t, b] \in {"completed", "failed"}
          /\ dpc[t] # "fail" /\ dpc'[t] = "fail" => dpc[t] = "get"]_vars

\* C32: createChunks returns no empty chunk.
C32_NoEmptyChunk ==
    chunks # NoChunks => \A k \in 1..Len(chunks) : chunks[k] # <<>>

\* C33: every chunk createChunks returns has at most chunkSize characters.
C33_AtMostChunkSize ==
    chunks # NoChunks => \A k \in 1..Len(chunks) : Len(chunks[k]) <= chunkSize

\* ----------------------------------- WorkerPoolManager.createChunks
MaxLength == 1200

\* createChunks(text) has been called with a text of up to MaxLength
\* characters.
InitSplit ==
    /\ InitStore(0, NoDocs)
    /\ InitLocal
    /\ InitPool({})
    /\ watch = FALSE
    /\ text = <<>>
    /\ chunkSize = CHUNK_SIZE
    /\ chunks = NoChunks
    /\ InitTracker
    /\ ptext \in 0..MaxLength
    /\ start = 0
    /\ pchunks = 0
    /\ ploop = "loop"
    /\ written = NoWrites
    /\ InitCounter
    /\ activeJobs = 0

NextSplit == SplitPush \/ SplitReturn

\* The loop is synchronous code: it runs until its condition is false.
SpecSplit ==
    InitSplit /\ [][NextSplit]_vars /\ WF_vars(SplitPush) /\ WF_vars(SplitReturn)

\* C36: WorkerPoolManager.createChunks returns, whatever the text.
C36_Terminates == <>(ploop = "returned")

\* ------------------------------------------------- ProgressTracker calls
\* One caller calls the operations of the tracker for one job, one after
\* the other, in any order: the batches are those processDocument forms.
ProgressValues == {0, 50, 100}

Elsewhere == <<lock, Lists, result, nextJob, doc, local, requeues, expiries,
               expired, build, watch, pool, text, chunkSize, chunks, nchunks,
               di, derr, dnew, faults, aside>>

\* initializeProgress(job), with or without totalChunks in job.metadata
InitializeProgress ==
    /\ calls < MaxCalls
    /\ calls' = calls + 1
    /\ \E total \in {0, nchunks} : progress' = Initialized(total)
    /\ UNCHANGED <<Elsewhere, batches>>

\* trackBatch(jobId, batchId, startIndex, endIndex, totalChunks)
TrackBatchCall ==
    /\ calls < MaxCalls
    /\ calls' = calls + 1
    /\ \E b \in 0..(NumBatches - 1) :
          batches' = [batches EXCEPT !["t1", b] = "tracked"]
    /\ UNCHANGED <<Elsewhere, progress>>

\* completeBatch(jobId, batchId, error?), with incrementProcessedChunks and
\* the updateProgress it calls.
CompleteBatchCall ==
    /\ calls < MaxCalls
    /\ calls' = calls + 1
    /\ \E b \in 0..(NumBatches - 1), error \in BOOLEAN :
          IF batches["t1", b] = "absent"
          THEN UNCHANGED <<batches, progress>>
          ELSE /\ batches' = [batches EXCEPT !["t1", b] =
                                 IF error THEN "failed" ELSE "completed"]
               /\ IF progress.present
                  THEN progress' =
                          [progress EXCEPT
                              !.processedChunks = @ + BatchLength(b),
                              !.progress =
                                  Percent(progress.processedChunks
                                              + BatchLength(b),
                                          progress.totalChunks)]
                  ELSE UNCHANGED progress
    /\ UNCHANGED Elsewhere

\* updateProgress(jobId, progress), with a progress from 0 to 100
UpdateProgressCall ==
    /\ calls < MaxCalls
    /\ calls' = calls + 1
    /\ \E p \in ProgressValues :
          IF progress.present
          THEN progress' = [progress EXCEPT !.progress = p]
          ELSE UNCHANGED progress
    /\ UNCHANGED <<Elsewhere, batches>>

InitTrackerCalls ==
    /\ InitStore(0, NoDocs)
    /\ InitLocal
    /\ InitPool({})
    /\ watch = FALSE
    /\ text = <<>>
    /\ chunkSize = CHUNK_SIZE
    /\ chunks = NoChunks
    /\ nchunks \in ChunkCounts
    /\ progress \in {NoProgress, Initialized(0), Initialized(nchunks)}
    /\ batches = NoBatches
    /\ di = [t \in Tasks |-> 0]
    /\ derr = [t \in Tasks |-> FALSE]
    /\ dnew = [t \in Tasks |-> NoNew]
    /\ faults = 0
    /\ InitAside

NextTrackerCalls ==
    \/ InitializeProgress
    \/ TrackBatchCall
    \/ CompleteBatchCall
    \/ UpdateProgressCall

SpecTrackerCalls == InitTrackerCalls /\ [][NextTrackerCalls]_vars

\* C31: the stored ProgressUpdate has a progress from 0 to 100, and no
\* more processedChunks than totalChunks when it has a totalChunks.
C31_ProgressRange ==
    progress.present
        => /\ 0 <= progress.progress
           /\ progress.progress <= 100
           /\ progress.totalChunks # 0
                 => progress.processedChunks <= progress.totalChunks

\* ------------------------------------------------------- the chunk keys
\* processDocument for one job, the chunks it stores being followed.
InitStored == InitCase(Cases) /\ watch = TRUE

SpecStored == InitStored /\ [][NextDocument]_vars

\* C35: the chunk at position j of the document is stored under id j, and
\* no id gets two different chunks.
C35_PositionalIds == \A id \in ChunkIds : written[id] \subseteq {id}

\* ------------------------------------------------------------ getAndSet
\* The contexts call getAndSet(k, v => v + 1), up to MaxCalls calls in all,
\* any of them at any time; lock entries may expire at any moment.
GetAndSet(c) ==
    \/ GetAndSetAcquire(c)
    \/ GetAndSetGet(c)
    \/ GetAndSetSet(c)
    \/ GetAndSetReleaseGet(c)
    \/ GetAndSetReleaseDel(c)

CounterCall(c) ==
    /\ calls < MaxCalls
    /\ calls' = calls + 1
    /\ \E k \in LockKeys : GetAndSetCall(c, k)
    /\ UNCHANGED pool

NextCounter ==
    \/ \E c \in Procs : CounterCall(c)
    \/ \E c \in Procs : GetAndSet(c)
    \/ \E k \in LockKeys : ExpireAny(k)

SpecCounter == InitSeq /\ [][NextCounter]_vars

\* No getAndSet call on k is in progress.
Settled(k) == \A c \in Procs : ~(op[c] = "getAndSet" /\ arg[c].key = k)

InitLoop ==
    /\ InitStore(MaxJobs + 1, [j \in JobIds |-> "absent"])
    /\ InitLocal
    /\ InitIndexer
    /\ InitPool(Workers)
    /\ watch = TRUE

Loop(w) == LoopStats(w) \/ LoopDequeue(w) \/ LoopSleep(w) \/ LoopGot(w)

FailedDocument(t) == DocGet(t) \/ DocFailCounted(t) \/ DocDone(t)

NextLoop ==
    \/ \E w \in Workers : Loop(w)
    \/ \E w \in Workers : Dequeue(w)
    \/ \E t \in Tasks : FailedDocument(t)
    \/ \E t \in Tasks : WorkerFail(t)
    \/ \E k \in LockKeys : ExpireAny(k)

SpecLoop == InitLoop /\ [][NextLoop]_vars

\* C37: activeJobs is never above MAX_CONCURRENT_JOBS and never below 0.
C37_ActiveJobsBounded == 0 <= activeJobs /\ activeJobs <= MAX_CONCURRENT_JOBS

\* --------------------------------------------------------- store faults
\* The sequential specification with a store that fails up to MaxFaults
\* calls.
StoreFault(c) == DequeueFault(c) \/ CompleteFault(c) \/ FailFault(c)

NextFaulty ==
    \/ \E c \in SeqProcs : SeqCall(c)
    \/ \E c \in SeqProcs : Step(c)
    \/ \E c \in SeqProcs : StoreFault(c)
    \/ \E k \in LockKeys : ExpireAny(k)

SpecFaulty == InitSeq /\ [][NextFaulty]_vars

\* The call returned its failure indicator: [] for dequeue, false for
\* complete and fail.
ReturnedFailure(c) ==
    /\ op[c] = "idle"
    /\ \/ ret[c].op = "dequeue" /\ ret[c].jobs = <<>>
       \/ ret[c].op \in {"complete", "fail"} /\ ~ret[c].ok

\* C38: after dequeue, complete or fail has returned its failure
\* indicator, the list it takes jobs from is as it was before the call.
C38_FailureLeavesQueue ==
    \A c \in SeqProcs :
        ReturnedFailure(c)
            => (IF ret[c].op = "dequeue" THEN pending ELSE processing)
                   = pre[c].list

\* ------------------------------------------- the IndexingQueue without locks
\* One context calls the operations of the second IndexingQueue class one
\* after the other, with any argument, on a queue that starts empty.
BareCall(c) ==
    /\ Quiescent
    /\ \/ BareEnqueue(c)
       \/ BareDequeueCall(c)
       \/ \E j \in 1..(nextJob - 1) : BareCompleteCall(c, j)
       \/ \E j \in 1..(nextJob - 1), retry \in BOOLEAN :
             BareFailCall(c, j, retry)
    /\ UNCHANGED <<calls, pool>>

BareStep(c) ==
    \/ BareRPopLPush(c)
    \/ BareLSet(c)
    \/ BareScan(c)
    \/ BareCompleteExec(c)
    \/ BareFailExec(c)

NextBare ==
    \/ \E c \in SeqProcs : BareCall(c)
    \/ \E c \in SeqProcs : BareStep(c)

SpecBare == InitSeq /\ [][NextBare]_vars

Occurrences(list, e) == Cardinality({i \in 1..Len(list) : list[i] = e})

\* C39: after dequeue() has returned a job, the processing list holds what
\* it held before the call and, once more, the job returned, with its
\* attempts incremented.
C39_ProcessingKept ==
    \A c \in SeqProcs :
        (op[c] = "idle" /\ ret[c].op = "dequeue" /\ ret[c].ok)
            => LET job == ret[c].jobs[1]
               IN  \A e \in Range(processing) \cup Range(pre[c].list) \cup {job} :
                       Occurrences(processing, e) =
                           Occurrences(pre[c].list, e)
                               + (IF e = job THEN 1 ELSE 0)

====
